---- MODULE Spec2Model ----
(***************************************************************************)
(* A model of the course advisor backend: the catalog store and matching   *)
(* engine (src/src/rag_system.py), the profile normalizer                  *)
(* (src/src/user_input.py) and the operations that use them.               *)
(*                                                                         *)
(* Python str values are TLA+ strings; TLC evaluates Len, \o, SubSeq, Head *)
(* and Tail on them, so substring tests, lower() and strip() are computed  *)
(* character by character as the interpreter does.                         *)
(***************************************************************************)
EXTENDS Integers, Sequences, FiniteSets, TLC

VARIABLES courses, call, ret, advisor

vars == <<courses, call, ret, advisor>>

(***************************************************************************)
(* Python string primitives                                                *)
(***************************************************************************)

UpperLetters == "ABCDEFGHIJKLMNOPQRSTUVWXYZ"

LowerLetters == "abcdefghijklmnopqrstuvwxyz"

\* str.lower() on the upper-case letters
LowerTable ==
  [c \in {SubSeq(UpperLetters, i, i) : i \in 1..26} |->
     LET i == CHOOSE j \in 1..26 : SubSeq(UpperLetters, j, j) = c
     IN  SubSeq(LowerLetters, i, i)]

\* str.lower(): every upper-case letter replaced by its lower-case letter,
\* from the first one on
RECURSIVE Lower(_)
Lower(s) ==
  LET ups == {i \in 1..Len(s) : SubSeq(s, i, i) \in DOMAIN LowerTable}
  IN  IF ups = {} THEN s
      ELSE LET i == CHOOSE k \in ups : \A j \in ups : k <= j
           IN  SubSeq(s, 1, i - 1) \o LowerTable[SubSeq(s, i, i)]
                 \o Lower(SubSeq(s, i + 1, Len(s)))

\* the characters str.strip() and the regular expression class \s remove
Whitespace == {" ", "\t", "\n"}

IsSpaceAt(s, i) == SubSeq(s, i, i) \in Whitespace

\* str.strip(): what lies between the first and the last character that is
\* not whitespace
Strip(s) ==
  LET First[i \in 1..(Len(s) + 1)] ==
        IF i > Len(s) THEN i
        ELSE IF IsSpaceAt(s, i) THEN First[i + 1] ELSE i
      Last[i \in 0..Len(s)] ==
        IF i = 0 THEN 0
        ELSE IF IsSpaceAt(s, i) THEN Last[i - 1] ELSE i
  IN  SubSeq(s, First[1], Last[Len(s)])

\* the Python test `k in s` on two strings
Contains(k, s) ==
  \E i \in 0..(Len(s) - Len(k)) : SubSeq(s, i + 1, i + Len(k)) = k

\* str.startswith
StartsWith(s, p) == Len(p) <= Len(s) /\ SubSeq(s, 1, Len(p)) = p

\* sep.join(parts)
Join(sep, parts) ==
  LET F[i \in 0..Len(parts)] ==
        IF i = 0 THEN ""
        ELSE IF i = 1 THEN parts[1]
        ELSE F[i - 1] \o sep \o parts[i]
  IN  F[Len(parts)]

\* dict.get(key, default) on a dict literal kept as its sequence of items
DictGet(d, key, default) ==
  IF \E i \in 1..Len(d) : d[i][1] = key
    THEN d[CHOOSE i \in 1..Len(d) : d[i][1] = key][2]
    ELSE default

\* the concatenation of a sequence of sequences (repeated list.extend)
Flatten(ss) ==
  LET F[i \in 0..Len(ss)] == IF i = 0 THEN <<>> ELSE F[i - 1] \o ss[i]
  IN  F[Len(ss)]

\* seq[:n] for n >= 0
Take(seq, n) == SubSeq(seq, 1, IF n < Len(seq) THEN n ELSE Len(seq))

Min(a, b) == IF a < b THEN a ELSE b

UpperTable ==
  [c \in {SubSeq(LowerLetters, i, i) : i \in 1..26} |->
     LET i == CHOOSE j \in 1..26 : SubSeq(LowerLetters, j, j) = c
     IN  SubSeq(UpperLetters, i, i)]

IsLetterAt(s, i) ==
  SubSeq(s, i, i) \in (DOMAIN LowerTable) \cup (DOMAIN UpperTable)

\* str.title(): a letter that follows a letter in lower case, any other
\* letter in upper case
Title(s) ==
  LET Done[i \in 0..Len(s)] ==
        IF i = 0 THEN ""
        ELSE LET c == SubSeq(s, i, i)
             IN  Done[i - 1] \o
                   (IF i > 1 /\ IsLetterAt(s, i - 1)
                      THEN (IF c \in DOMAIN LowerTable THEN LowerTable[c] ELSE c)
                      ELSE (IF c \in DOMAIN UpperTable THEN UpperTable[c] ELSE c))
  IN  Done[Len(s)]

\* the element of a set of one element; Only({e(v) : v \in {x}}) is e(v) with
\* v standing for the value of x, as a local variable that was assigned x
Only(S) == CHOOSE v \in S : TRUE

(***************************************************************************)
(* The lookup tables of CourseRAG (src/src/rag_system.py)                  *)
(***************************************************************************)

level_map ==
  << <<"freshman", "1st year">>,
     <<"first year", "1st year">>,
     <<"1st year", "1st year">>,
     <<"sophomore", "2nd year">>,
     <<"second year", "2nd year">>,
     <<"2nd year", "2nd year">>,
     <<"junior", "3rd year">>,
     <<"third year", "3rd year">>,
     <<"3rd year", "3rd year">>,
     <<"senior", "4th year">>,
     <<"fourth year", "4th year">>,
     <<"4th year", "4th year">>,
     <<"graduate", "graduate">>,
     <<"grad", "graduate">>,
     <<"masters", "graduate">>,
     <<"phd", "graduate">> >>

interest_mapping ==
  << <<"AI/ML", <<"artificial intelligence", "machine learning", "data science", "computer science">>>>,
     <<"Web Dev", <<"web", "programming", "computer science", "development">>>>,
     <<"Security", <<"security", "computer science", "networking">>>>,
     <<"Data Science", <<"data", "statistics", "mathematics", "computer science", "analysis">>>>,
     <<"Mobile Dev", <<"mobile", "programming", "computer science", "development">>>>,
     <<"Game Dev", <<"game", "programming", "computer science", "development">>>>,
     <<"Entrepreneurship", <<"business", "entrepreneurship", "management">>>>,
     <<"Management", <<"business", "management", "leadership">>>>,
     <<"Business Strategy", <<"business", "strategy", "management">>>>,
     <<"Finance/Accounting", <<"finance", "accounting", "business", "economics">>>>,
     <<"Biology/Biotech", <<"biology", "science", "biotechnology">>>>,
     <<"Chemistry", <<"chemistry", "science">>>>,
     <<"Mathematics", <<"mathematics", "statistics", "calculus">>>>,
     <<"Physics", <<"physics", "science">>>>,
     <<"Nursing", <<"nursing", "healthcare", "medical">>>>,
     <<"Healthcare", <<"healthcare", "medical", "health">>>>,
     <<"Psychology", <<"psychology", "social", "behavior">>>>,
     <<"Communication", <<"communication", "media", "writing">>>>,
     <<"Education", <<"education", "teaching", "learning">>>>,
     <<"History/Humanities", <<"history", "humanities", "literature">>>>,
     <<"UI/UX Design", <<"design", "art", "creative", "computer">>>>,
     <<"Music", <<"music", "performance", "creative">>>>,
     <<"Visual Arts", <<"art", "visual", "creative", "design">>>>,
     <<"Theatre Arts", <<"theatre", "performance", "art", "creative">>>> >>

category_map ==
  << <<"business", <<"Business", "MBA">>>>,
     <<"science", <<"Natural Sciences", "Computer Science">>>>,
     <<"computer science", <<"Computer Science">>>>,
     <<"cs", <<"Computer Science">>>>,
     <<"programming", <<"Computer Science">>>>,
     <<"health", <<"Health Sciences", "Nursing">>>>,
     <<"nursing", <<"Nursing">>>>,
     <<"medical", <<"Health Sciences">>>>,
     <<"medicine", <<"Health Sciences">>>>,
     <<"education", <<"Education">>>>,
     <<"teaching", <<"Education">>>>,
     <<"music", <<"Music">>>>,
     <<"art", <<"Fine Arts">>>>,
     <<"english", <<"Humanities">>>>,
     <<"literature", <<"Humanities">>>>,
     <<"history", <<"Humanities">>>>,
     <<"psychology", <<"Social Sciences">>>>,
     <<"math", <<"Mathematics">>>>,
     <<"mathematics", <<"Mathematics">>>>,
     <<"religion", <<"Religion">>>>,
     <<"communications", <<"Communications">>>> >>

career_keywords ==
  << <<"doctor", <<"biology", "chemistry", "anatomy", "physiology", "pre-med", "medical", "health">>>>,
     <<"physician", <<"biology", "chemistry", "anatomy", "physiology", "pre-med", "medical", "health">>>>,
     <<"nurse", <<"nursing", "anatomy", "physiology", "healthcare", "patient care", "medical">>>>,
     <<"teacher", <<"education", "psychology", "classroom management", "learning", "teaching">>>>,
     <<"business", <<"business", "management", "marketing", "finance", "entrepreneurship">>>>,
     <<"entrepreneur", <<"business", "management", "marketing", "finance", "entrepreneurship">>>>,
     <<"software engineer", <<"computer science", "programming", "algorithms", "data structures">>>>,
     <<"programmer", <<"computer science", "programming", "algorithms", "data structures">>>>,
     <<"data scientist", <<"statistics", "computer science", "mathematics", "data analysis">>>>,
     <<"musician", <<"music", "performance", "theory", "composition">>>>,
     <<"artist", <<"art", "studio", "creative", "visual arts">>>>,
     <<"lawyer", <<"english", "communication", "history", "critical thinking">>>>,
     <<"researcher", <<"research methods", "statistics", "methodology", "analysis">>>>,
     <<"counselor", <<"psychology", "developmental", "behavior", "social">>>>,
     <<"therapist", <<"psychology", "developmental", "behavior", "social">>>> >>

(***************************************************************************)
(* The lookup tables of UserProfileProcessor (src/src/user_input.py)       *)
(***************************************************************************)

input_level_map ==
  << <<"freshman", "1st year">>,
     <<"first year", "1st year">>,
     <<"1", "1st year">>,
     <<"1st", "1st year">>,
     <<"sophomore", "2nd year">>,
     <<"second year", "2nd year">>,
     <<"2", "2nd year">>,
     <<"2nd", "2nd year">>,
     <<"junior", "3rd year">>,
     <<"third year", "3rd year">>,
     <<"3", "3rd year">>,
     <<"3rd", "3rd year">>,
     <<"senior", "4th year">>,
     <<"fourth year", "4th year">>,
     <<"4", "4th year">>,
     <<"4th", "4th year">>,
     <<"graduate", "graduate">>,
     <<"grad", "graduate">>,
     <<"masters", "graduate">>,
     <<"master's", "graduate">>,
     <<"phd", "graduate">>,
     <<"doctoral", "graduate">> >>

prefixes_to_remove ==
  <<"i want to be a", "i want to be an", "i want to become a", "i want to become an", "i would like to be a", "i would like to be an", "becoming a", "becoming an", "my goal is to be a", "my goal is to be an", "i plan to be a", "i plan to be an">>

category_keywords ==
  << <<"Business", <<"business", "management", "marketing", "finance", "economics", "entrepreneurship">>>>,
     <<"Natural Sciences", <<"science", "biology", "chemistry", "physics", "environmental">>>>,
     <<"Computer Science", <<"computer", "programming", "technology", "coding", "software", "data">>>>,
     <<"Health Sciences", <<"health", "medicine", "medical", "nursing", "pharmacy", "therapy">>>>,
     <<"Social Sciences", <<"psychology", "sociology", "anthropology", "political", "social work">>>>,
     <<"Humanities", <<"history", "literature", "philosophy", "languages", "cultural studies">>>>,
     <<"Fine Arts", <<"art", "creative", "visual", "painting", "drawing", "design">>>>,
     <<"Music", <<"music", "musical", "instrument", "singing", "composition">>>>,
     <<"Education", <<"education", "teaching", "children", "learning", "classroom">>>>,
     <<"Mathematics", <<"math", "statistics", "calculus", "algebra", "numbers">>>>,
     <<"Communications", <<"communication", "media", "journalism", "writing", "public relations">>>> >>

(***************************************************************************)
(* CourseRAG (src/src/rag_system.py).  self.courses is the variable        *)
(* courses; a course record carries the fields the searches read.          *)
(***************************************************************************)

\* str.split() without a separator: the maximal runs of non-whitespace
SplitWords(s) ==
  LET F[i \in 0..Len(s)] ==
        \* <<words completed so far, word being read>>
        IF i = 0 THEN <<<<>>, "">>
        ELSE LET done == F[i - 1][1]
                 cur  == F[i - 1][2]
             IN  IF IsSpaceAt(s, i)
                   THEN IF cur = "" THEN <<done, "">>
                        ELSE <<Append(done, cur), "">>
                   ELSE <<done, cur \o SubSeq(s, i, i)>>
      last == F[Len(s)]
  IN  IF last[2] = "" THEN last[1] ELSE Append(last[1], last[2])

\* [x for x in seq if x is in the list `within`] membership test `x in within`
InSeq(x, within) == \E i \in 1..Len(within) : within[i] = x

\* search_courses_by_level comparing the course's level as written
search_courses_by_level_exact_case(level) ==
  LET normalized_level == DictGet(level_map, Lower(level), level)
  IN  SelectSeq(courses, LAMBDA course : course.level = Lower(normalized_level))

search_courses_by_level(level) ==
  LET normalized_level == DictGet(level_map, Lower(level), level)
  IN  SelectSeq(courses,
                LAMBDA course : Lower(course.level) = Lower(normalized_level))

\* lines 92-96: the keywords lower-cased, each followed by its mapping
expanded_keywords(keywords) ==
  Flatten([i \in 1..Len(keywords) |->
             <<Lower(keywords[i])>> \o
             DictGet(interest_mapping, keywords[i], <<>>)])

\* lines 100-105
search_text(course) ==
  Join(" ", << Lower(course.title),
               Lower(course.description),
               Lower(course.category),
               Lower(Join(" ", course.keywords)) >>)

\* keyword_score with the description looked at before the title
keyword_score_description_first(text, title, description, keyword) ==
  LET kw == Strip(Lower(keyword))
  IN  IF Contains(kw, text)
        THEN IF Contains(kw, description) THEN 2
             ELSE IF Contains(kw, title) THEN 3
             ELSE 1
        ELSE 0

\* lines 108-118: what one expanded keyword adds to the score of a course,
\* given the course's search_text and lower-cased title and description
keyword_score(text, title, description, keyword) ==
  LET kw == Strip(Lower(keyword))
  IN  IF Contains(kw, text)
        THEN IF Contains(kw, title) THEN 3
             ELSE IF Contains(kw, description) THEN 2
             ELSE 1
        ELSE 0

\* lines 99-118: the score of a course for a list of expanded keywords
course_score(course, expanded) ==
  Only({
    LET F[i \in 0..Len(expanded)] ==
          IF i = 0 THEN 0
          ELSE F[i - 1] + keyword_score(text, title, description, expanded[i])
    IN  F[Len(expanded)]
    : text        \in {search_text(course)},
      title       \in {Lower(course.title)},
      description \in {Lower(course.description)} })

\* lines 98-121: the (course, score) pairs with a positive score, in catalog
\* order
score_courses(expanded) ==
  LET F[i \in 0..Len(courses)] ==
        IF i = 0 THEN <<>>
        ELSE Only({ IF score > 0 THEN Append(F[i - 1], <<courses[i], score>>)
                    ELSE F[i - 1]
                    : score \in {course_score(courses[i], expanded)} })
  IN  F[Len(courses)]

\* a descending sort that puts a pair before the pairs of equal score
sort_by_score_desc_unstable(scored) ==
  LET F[i \in 0..Len(scored)] ==
        IF i = 0 THEN <<>>
        ELSE Only({
               LET n == Cardinality({j \in 1..Len(prev) : prev[j][2] > scored[i][2]})
               IN  SubSeq(prev, 1, n) \o <<scored[i]>>
                     \o SubSeq(prev, n + 1, Len(prev))
               : prev \in {F[i - 1]} })
  IN  F[Len(scored)]

\* list.sort(key=lambda x: x[1], reverse=True): a stable sort, so pairs with
\* equal score keep the order they had
sort_by_score_desc(scored) ==
  LET F[i \in 0..Len(scored)] ==
        IF i = 0 THEN <<>>
        ELSE Only({
               LET n == Cardinality({j \in 1..Len(prev) : prev[j][2] >= scored[i][2]})
               IN  SubSeq(prev, 1, n) \o <<scored[i]>>
                     \o SubSeq(prev, n + 1, Len(prev))
               : prev \in {F[i - 1]} })
  IN  F[Len(scored)]

\* lines 92-124: scored_courses after the sort
sorted_scored_courses(keywords) ==
  sort_by_score_desc(score_courses(expanded_keywords(keywords)))

\* lines 124-125: the courses returned (result) and, beside them, the scores
\* that scored_courses holds for them
searched(keywords, max_results) ==
  Only({ [result |-> Take([k \in 1..Len(sorted) |-> sorted[k][1]], max_results),
          scores |-> Take([k \in 1..Len(sorted) |-> sorted[k][2]], max_results)]
         : sorted \in {sorted_scored_courses(keywords)} })

search_courses_by_keywords(keywords, max_results) ==
  searched(keywords, max_results).result

search_courses_by_category(category) ==
  LET target_categories == DictGet(category_map, Lower(category), <<category>>)
  IN  SelectSeq(courses,
                LAMBDA course :
                  \E i \in 1..Len(target_categories) :
                    Contains(Lower(target_categories[i]), Lower(course.category)))

\* the default of the parameter max_results of search_courses_by_keywords
DefaultMaxResults == 10

search_courses_by_career_goal(career_goal) ==
  LET matched == Flatten([i \in 1..Len(career_keywords) |->
                    IF Contains(Lower(career_keywords[i][1]), Lower(career_goal))
                      THEN career_keywords[i][2] ELSE <<>>])
      keywords == IF matched = <<>> THEN SplitWords(Lower(career_goal))
                  ELSE matched
  IN  search_courses_by_keywords(keywords, DefaultMaxResults)

\* line 214: the cap of one interest's keyword search
InterestMaxResults == 5

\* line 245: below this many merged courses the backfill runs
MinUnique == 8

\* lines 247 and 251: the size of a recommendation
MaxRecommendations == 12

\* lines 203-207
level_courses(user_profile) ==
  IF user_profile.education_level # ""
    THEN search_courses_by_level(user_profile.education_level)
    ELSE courses

\* one search for all the interests together
interest_courses_joint(user_profile) ==
  IF user_profile.interests # <<>>
    THEN search_courses_by_keywords(user_profile.interests, InterestMaxResults)
    ELSE level_courses(user_profile)

\* lines 210-217
interest_courses(user_profile) ==
  LET interests == user_profile.interests
      F[i \in 0..Len(interests)] ==
        IF i = 0 THEN <<>>
        ELSE F[i - 1] \o search_courses_by_keywords(<<interests[i]>>,
                                                    InterestMaxResults)
  IN  IF interests # <<>> THEN F[Len(interests)]
      ELSE level_courses(user_profile)

\* lines 220-224
career_courses(user_profile) ==
  IF user_profile.career_goal # ""
    THEN search_courses_by_career_goal(user_profile.career_goal)
    ELSE <<>>

\* lines 227-231
category_courses(user_profile) ==
  LET categories == user_profile.preferred_categories
      F[i \in 0..Len(categories)] ==
        IF i = 0 THEN <<>>
        ELSE F[i - 1] \o search_courses_by_category(categories[i])
  IN  F[Len(categories)]

\* the passes concatenated with the interest pass first
all_courses_interest_first(career, interest, category) ==
  interest \o career \o category

\* line 234
all_courses(career, interest, category) == career \o interest \o category

\* the walk's test without the look at seen_ids
keeps_without_seen(course, seen_ids, universe) == InSeq(course, universe)

\* the walk's test without the look at the universe
keeps_without_universe(course, seen_ids, universe) == course.id \notin seen_ids

\* line 240: the test that decides whether the walk keeps a course
keeps(course, seen_ids, universe) ==
  course.id \notin seen_ids /\ InSeq(course, universe)

\* lines 237-242: the walk over all_courses; the value is
\* [unique_courses, seen_ids] after the loop
merge_walk(all, universe) ==
  LET F[i \in 0..Len(all)] ==
        IF i = 0 THEN [unique_courses |-> <<>>, seen_ids |-> {}]
        ELSE LET st     == F[i - 1]
                 course == all[i]
             IN  IF keeps(course, st.seen_ids, universe)
                   THEN [unique_courses |-> Append(st.unique_courses, course),
                         seen_ids |-> st.seen_ids \cup {course.id}]
                   ELSE st
  IN  F[Len(all)]

\* the backfill run whatever the number of merged courses
backfill_unguarded(merged, universe) ==
  LET F[i \in 0..Len(universe)] ==
        IF i = 0 THEN merged
        ELSE LET st     == F[i - 1]
                 course == universe[i]
             IN  IF course.id \notin st.seen_ids
                    /\ Len(st.unique_courses) < MaxRecommendations
                   THEN [unique_courses |-> Append(st.unique_courses, course),
                         seen_ids |-> st.seen_ids \cup {course.id}]
                   ELSE st
  IN  F[Len(universe)]

\* lines 245-249: the backfill from the universe
backfill(merged, universe) ==
  IF Len(merged.unique_courses) < MinUnique
    THEN LET F[i \in 0..Len(universe)] ==
               IF i = 0 THEN merged
               ELSE LET st     == F[i - 1]
                        course == universe[i]
                    IN  IF course.id \notin st.seen_ids
                           /\ Len(st.unique_courses) < MaxRecommendations
                          THEN [unique_courses |->
                                  Append(st.unique_courses, course),
                                seen_ids |-> st.seen_ids \cup {course.id}]
                          ELSE st
         IN  F[Len(universe)]
    ELSE merged

\* lines 200-251; besides the returned list (result) the record keeps the
\* values of the locals level_courses, career_courses, interest_courses and
\* category_courses and of unique_courses before the backfill (merged)
get_recommended_courses(user_profile) ==
  Only({
    Only({
      Only({
        [level_courses    |-> universe,
         career_courses   |-> career,
         interest_courses |-> interest,
         category_courses |-> category,
         merged           |-> merged.unique_courses,
         result           |-> Take(filled.unique_courses, MaxRecommendations)]
        : filled \in {backfill(merged, universe)} })
      : merged \in {merge_walk(all_courses(career, interest, category),
                               universe)} })
    : universe \in {level_courses(user_profile)},
      career   \in {career_courses(user_profile)},
      interest \in {interest_courses(user_profile)},
      category \in {category_courses(user_profile)} })

(***************************************************************************)
(* Catalogs.  load_course_catalog returns the 'courses' list of the JSON   *)
(* file; the catalogs considered repeat a short pattern of course kinds,   *)
(* each course with an id of its own.                                      *)
(***************************************************************************)

\* the largest catalog
MaxCourses == 13

CourseKinds ==
  << [title |-> "Intro to Programming", description |-> "Programming in Python",
      category |-> "Computer Science", level |-> "1st year",
      keywords |-> <<"programming", "software">>],
     [title |-> "Business Basics", description |-> "Management and marketing",
      category |-> "Business", level |-> "2nd year",
      keywords |-> <<"business">>],
     [title |-> "Visual Arts Studio", description |-> "Drawing and design",
      category |-> "Fine Arts", level |-> "1st year",
      keywords |-> <<"art", "creative">>],
     [title |-> "Data Structures", description |-> "Algorithms in software",
      category |-> "Computer Science", level |-> "1st Year",
      keywords |-> <<"algorithms", "programming">>],
     [title |-> "Machine Learning", description |-> "Statistics for data",
      category |-> "Computer Science", level |-> "Graduate",
      keywords |-> <<"artificial intelligence">>] >>

\* the course kinds a catalog repeats, by their place in CourseKinds
Patterns ==
  { <<1>>, <<1, 3>>, <<1, 2>>, <<4, 1, 3>>, <<2, 5, 3>>, <<3, 5, 4, 4>> }

Catalog(n, pattern) ==
  [i \in 1..n |->
     LET kind == CourseKinds[pattern[((i - 1) % Len(pattern)) + 1]]
     IN  [id          |-> "CRS" \o ToString(100 + i),
          title       |-> kind.title,
          description |-> kind.description,
          category    |-> kind.category,
          level       |-> kind.level,
          keywords    |-> kind.keywords]]

Catalogs == {Catalog(n, pattern) : n \in 0..MaxCourses, pattern \in Patterns}

(***************************************************************************)
(* Profiles handed to get_recommended_courses                              *)
(***************************************************************************)

ProfileLevels == {"", "1st year", "Freshman", "graduate"}

ProfileInterests == {<<>>, <<"programming">>, <<"AI/ML", "art">>}

ProfileGoals == {"", "software engineer", "artist"}

ProfileCategories == {<<>>, <<"Business", "Fine Arts">>}

Profiles ==
  [education_level : ProfileLevels, interests : ProfileInterests,
   career_goal : ProfileGoals, preferred_categories : ProfileCategories,
   additional_info : {""}]

NoCall == [op |-> "none"]

\* the AICourseAdvisor of app.py line 18 when its construction failed, as it
\* does without GEMINI_API_KEY: self.chat = None, self.rag_system = None
\* (llm_integration.py lines 51-54)
unavailable_advisor == [chat |-> [kind |-> "none"], rag_system |-> [kind |-> "none"]]

Init ==
  /\ courses \in Catalogs
  /\ call = NoCall
  /\ ret = NoCall
  /\ advisor = unavailable_advisor

GetRecommendedCourses ==
  \E user_profile \in Profiles :
    /\ call = NoCall
    /\ call' = [op |-> "get_recommended_courses", user_profile |-> user_profile]
    /\ ret' = get_recommended_courses(user_profile)
    /\ UNCHANGED <<courses, advisor>>

\* the caller takes the value returned and the frame of the call is gone
Return ==
  /\ call # NoCall
  /\ call' = NoCall
  /\ ret' = NoCall
  /\ UNCHANGED <<courses, advisor>>

Next == GetRecommendedCourses \/ Return

Spec == Init /\ [][Next]_vars

(***************************************************************************)
(* The scored keyword search on its own.  Its callers pass keywords        *)
(* without surrounding whitespace (the interests of a normalized profile,  *)
(* the career keywords, the stripped query of /api/courses/search) and a   *)
(* cap of 5 (line 214) or the default 10.                                  *)
(***************************************************************************)

KeywordLists ==
  { <<"programming">>, <<"AI/ML">>, <<"ai/ml">>, <<"art", "design">>,
    <<"Data Science", "business">>, <<"software", "Programming", "python">>,
    <<"studio drawing", "python">>, <<"chemistry">> }

MaxResultsValues == {InterestMaxResults, DefaultMaxResults}

SearchCoursesByKeywords ==
  \E keywords \in KeywordLists, max_results \in MaxResultsValues :
    /\ call = NoCall
    /\ call' = [op |-> "search_courses_by_keywords", keywords |-> keywords,
                max_results |-> max_results]
    /\ ret' = searched(keywords, max_results)
    /\ UNCHANGED <<courses, advisor>>

\* the same search run once more before the first result is taken
SearchAgain ==
  /\ call.op = "search_courses_by_keywords"
  /\ ret' = searched(call.keywords, call.max_results)
  /\ UNCHANGED <<courses, call, advisor>>

NextSearch == SearchCoursesByKeywords \/ SearchAgain \/ Return

SpecSearch == Init /\ [][NextSearch]_vars

(***************************************************************************)
(* UserProfileProcessor (src/src/user_input.py).  The raw input is the     *)
(* JSON body of a request: a value of a field is a string, a list, a       *)
(* number or null, or the field is missing.  A call returns a value or     *)
(* raises.                                                                 *)
(***************************************************************************)

\* the key is missing from the dict
PyAbsent == [kind |-> "absent"]

PyNone == [kind |-> "none"]

PyInt(n) == [kind |-> "int", int |-> n]

PyStr(s) == [kind |-> "str", str |-> s]

PyList(items) == [kind |-> "list", items |-> items]

\* raw_input.get(field, default)
RawGet(raw_input, field, default) ==
  IF raw_input[field].kind = "absent" THEN default ELSE raw_input[field]

\* the truth value of `not v` negated: None, 0, "" and [] are false
Truthy(v) ==
  CASE v.kind = "none" -> FALSE
    [] v.kind = "int"  -> v.int # 0
    [] v.kind = "str"  -> v.str # ""
    [] v.kind = "list" -> v.items # <<>>

\* repr(v): a string comes back between quotes
ToStr_repr(v) ==
  CASE v.kind = "str"  -> "'" \o v.str \o "'"
    [] v.kind = "none" -> "None"
    [] v.kind = "int"  -> ToString(v.int)

\* str(v) for a string, None or an integer
ToStr(v) ==
  CASE v.kind = "str"  -> v.str
    [] v.kind = "none" -> "None"
    [] v.kind = "int"  -> ToString(v.int)

Returns(value) == [raised |-> FALSE, value |-> value]

\* v.lower() and v.strip() exist on strings only
AttributeError == [raised |-> TRUE, error |-> "AttributeError"]

\* returns level_clean, not level_input, when the table has no such key
_process_education_level_returns_clean(level_input) ==
  IF ~Truthy(level_input) THEN Returns("")
  ELSE IF level_input.kind # "str" THEN AttributeError
  ELSE LET level_clean == Strip(Lower(level_input.str))
       IN  Returns(DictGet(input_level_map, level_clean, level_clean))

_process_education_level(level_input) ==
  IF ~Truthy(level_input) THEN Returns("")
  ELSE IF level_input.kind # "str" THEN AttributeError
  ELSE LET level_clean == Strip(Lower(level_input.str))
       IN  Returns(DictGet(input_level_map, level_clean, level_input.str))

\* re.split(r'[,;]|\sand\s', s): the pieces of s between the matches, found
\* from left to right and not overlapping; the piece being read began at
\* `start` and the scan is at i
RECURSIVE re_split_from(_, _, _)
re_split_from(s, start, i) ==
  IF i > Len(s) THEN <<SubSeq(s, start, Len(s))>>
  ELSE IF SubSeq(s, i, i) \in {",", ";"}
    THEN <<SubSeq(s, start, i - 1)>> \o re_split_from(s, i + 1, i + 1)
  ELSE IF /\ i + 4 <= Len(s)
          /\ IsSpaceAt(s, i)
          /\ SubSeq(s, i + 1, i + 3) = "and"
          /\ IsSpaceAt(s, i + 4)
    THEN <<SubSeq(s, start, i - 1)>> \o re_split_from(s, i + 5, i + 5)
  ELSE re_split_from(s, start, i + 1)

re_split(s) == re_split_from(s, 1, 1)

\* the alternatives of the pattern of line 116, in its order
interest_prefixes ==
  <<"i like", "i love", "i enjoy", "i am interested in", "interested in">>

\* re.sub(r'^(...)\s+', '', s): the first alternative that s begins with and
\* that whitespace follows is removed with all the whitespace after it
remove_interest_prefix(s) ==
  LET matches == {k \in 1..Len(interest_prefixes) :
                    /\ StartsWith(s, interest_prefixes[k])
                    /\ Len(s) > Len(interest_prefixes[k])
                    /\ IsSpaceAt(s, Len(interest_prefixes[k]) + 1)}
  IN  IF matches = {} THEN s
      ELSE LET k == CHOOSE m \in matches : \A n \in matches : m <= n
               After[i \in 1..(Len(s) + 1)] ==
                 IF i > Len(s) THEN i
                 ELSE IF IsSpaceAt(s, i) THEN After[i + 1] ELSE i
           IN  SubSeq(s, After[Len(interest_prefixes[k]) + 1], Len(s))

\* [f(x) for x in seq if keep(f(x))] with f = strip: lines 101 and 104
stripped_non_empty(seq) ==
  LET Kept[i \in 0..Len(seq)] ==
        IF i = 0 THEN <<>>
        ELSE IF Strip(seq[i]) = "" THEN Kept[i - 1]
        ELSE Append(Kept[i - 1], Strip(seq[i]))
  IN  Kept[Len(seq)]

\* lines 109-120: the prefix removed, stripped, kept when longer than one
RECURSIVE cleaned_interests(_)
cleaned_interests(interests) ==
  IF interests = <<>> THEN <<>>
  ELSE LET clean == Strip(remove_interest_prefix(Lower(Head(interests))))
       IN  (IF Len(clean) > 1 THEN <<clean>> ELSE <<>>)
             \o cleaned_interests(Tail(interests))

\* lower-cases the elements of a list as well
list_interest_lowercased(interest) == Lower(ToStr(interest))

\* str(interest) of line 104
list_interest(interest) == ToStr(interest)

\* the interests of one profile at most
MaxInterests == 15

_process_interests(interests_input) ==
  IF interests_input.kind = "str"
    THEN Only({ Take(cleaned_interests(stripped_non_empty(parts)),
                     MaxInterests) :
                  parts \in {re_split(Lower(interests_input.str))} })
  ELSE IF interests_input.kind = "list"
    THEN Only({ Take(stripped_non_empty(texts), MaxInterests) :
                  texts \in {[i \in 1..Len(interests_input.items) |->
                                list_interest(interests_input.items[i])]} })
  ELSE <<>>

_process_career_goal(career_input) ==
  IF ~Truthy(career_input) THEN Returns("")
  ELSE IF career_input.kind # "str" THEN AttributeError
  ELSE LET career_clean == Strip(Lower(career_input.str))
           found == {k \in 1..Len(prefixes_to_remove) :
                       StartsWith(career_clean, prefixes_to_remove[k])}
       IN  IF found = {} THEN Returns(career_clean)
           ELSE LET k == CHOOSE m \in found : \A n \in found : m <= n
                IN  Returns(Strip(SubSeq(career_clean,
                                         Len(prefixes_to_remove[k]) + 1,
                                         Len(career_clean))))

\* any(keyword in interest for keyword in keywords)
AnyKeywordIn(keywords, interest) ==
  \E k \in 1..Len(keywords) : Contains(keywords[k], interest)

\* lines 165-168 for one interest: the categories from the c-th on
RECURSIVE scan_categories(_, _, _)
scan_categories(categories, interest, c) ==
  IF c > Len(category_keywords) THEN categories
  ELSE Only({ scan_categories(found, interest, c + 1) :
                found \in { IF /\ AnyKeywordIn(category_keywords[c][2], interest)
                               /\ ~InSeq(category_keywords[c][1], categories)
                              THEN Append(categories, category_keywords[c][1])
                              ELSE categories } })

\* lines 164-168: the categories found so far and the interests still to go
RECURSIVE derive_categories(_, _)
derive_categories(categories, interests) ==
  IF interests = <<>> THEN categories
  ELSE Only({ derive_categories(found, Tail(interests)) :
                found \in {scan_categories(categories, Head(interests), 1)} })

_derive_categories_from_interests(interests_input) ==
  Only({ derive_categories(<<>>, interests) :
           interests \in {_process_interests(interests_input)} })

\* line 56: raw_input.get('additional_info', '').strip()
additional_info(raw_input) ==
  LET info == RawGet(raw_input, "additional_info", PyStr(""))
  IN  IF info.kind # "str" THEN AttributeError ELSE Returns(Strip(info.str))

process_user_input(raw_input) ==
  LET level  == _process_education_level(
                  RawGet(raw_input, "education_level", PyStr("")))
      given  == RawGet(raw_input, "interests", PyList(<<>>))
      career == _process_career_goal(
                  RawGet(raw_input, "career_goal", PyStr("")))
      info   == additional_info(raw_input)
  IN  IF level.raised \/ career.raised \/ info.raised THEN AttributeError
      ELSE [raised  |-> FALSE,
            profile |->
              [education_level      |-> level.value,
               interests            |-> _process_interests(given),
               career_goal          |-> career.value,
               preferred_categories |->
                 _derive_categories_from_interests(given),
               additional_info      |-> info.value]]

(***************************************************************************)
(* The raw inputs handed to process_user_input                             *)
(***************************************************************************)

\* the longest list of interests supplied
MaxSupplied == 16

RawLevels ==
  { PyAbsent, PyNone, PyInt(0), PyInt(2), PyStr(""), PyStr("Freshman"),
    PyStr(" PhD "), PyStr("2nd Year"), PyStr("3rd year"), PyStr(" 5th year "),
    PyStr("4"), PyList(<<PyStr("senior")>>) }

RawInterests ==
  { PyAbsent, PyNone, PyInt(7),
    PyStr("AI, Robotics and Music"),
    PyStr("I like art; i enjoy  Data Science,x, ,I love"),
    PyList(<<PyStr("AI/ML"), PyStr(" Web Dev "), PyStr(""), PyStr("  ")>>),
    PyList(<<PyStr("Data Science"), PyNone, PyInt(5)>>),
    PyList(<<PyStr("Data Science")>>),
    PyList(<<PyStr("computer science"), PyStr("business"),
             PyStr("data analysis")>>),
    PyList([i \in 1..10 |-> PyStr("Topic " \o ToString(i))]),
    PyList([i \in 1..MaxSupplied |-> PyStr("Topic " \o ToString(i))]) }

RawGoals ==
  { PyAbsent, PyNone, PyInt(5), PyStr(""), PyStr("I want to be a Doctor"),
    PyStr("I want to be an Engineer"), PyStr(" Data Scientist ") }

RawInfos ==
  { PyAbsent, PyNone, PyInt(3), PyStr(" evening classes "),
    PyStr("night only"),
    PyStr("I am particularly interested in artificial intelligence and machine learning applications in business.") }

RawInputs ==
  [education_level : RawLevels, interests : RawInterests,
   career_goal : RawGoals, additional_info : RawInfos]

\* the processor keeps no state and reads no catalog
InitProfile ==
  /\ courses = Catalog(0, <<1>>)
  /\ call = NoCall
  /\ ret = NoCall
  /\ advisor = unavailable_advisor

ProcessUserInput ==
  \E raw_input \in RawInputs :
    /\ call = NoCall
    /\ call' = [op |-> "process_user_input", raw_input |-> raw_input]
    /\ ret' = process_user_input(raw_input)
    /\ UNCHANGED <<courses, advisor>>

(***************************************************************************)
(* validate_profile (src/src/user_input.py), called by /api/recommend on   *)
(* the profile process_user_input returned                                 *)
(***************************************************************************)

missing_level_warning ==
  "Education level not specified. Recommendations will include all levels."

missing_interests_warning ==
  "No interests specified. Consider adding some to get better recommendations."

many_interests_warning ==
  "Many interests specified. Consider focusing on your top priorities."

missing_career_warning ==
  "Career goal not specified. Adding one can help tailor recommendations."

\* the number of interests above which validate_profile warns
TooManyInterests == 10

\* warns from ten interests on
interests_warnings_from_ten(interests) ==
  IF interests = <<>> THEN <<missing_interests_warning>>
  ELSE IF Len(interests) >= TooManyInterests THEN <<many_interests_warning>>
  ELSE <<>>

\* lines 189-193
interests_warnings(interests) ==
  IF interests = <<>> THEN <<missing_interests_warning>>
  ELSE IF Len(interests) > TooManyInterests THEN <<many_interests_warning>>
  ELSE <<>>

validate_profile(profile) ==
  [errors   |-> <<>>,
   warnings |->
     (IF profile.education_level = "" THEN <<missing_level_warning>> ELSE <<>>)
       \o interests_warnings(profile.interests)
       \o (IF profile.career_goal = "" THEN <<missing_career_warning>>
           ELSE <<>>)]

\* app.py line 66: the profile just returned is validated
ValidateProfile ==
  /\ call.op = "process_user_input"
  /\ ~ret.raised
  /\ call' = [op |-> "validate_profile", profile |-> ret.profile]
  /\ ret' = validate_profile(ret.profile)
  /\ UNCHANGED <<courses, advisor>>

\* additional info of any length gets its line
summary_parts_any_notes(profile) ==
  (IF profile.education_level # ""
     THEN <<"Education Level: " \o Title(profile.education_level)>>
     ELSE <<>>)
  \o (IF profile.interests # <<>>
        THEN <<"Interests: " \o Join(", ", Take(profile.interests, 5))
                 \o (IF Len(profile.interests) > 5
                       THEN " (and " \o ToString(Len(profile.interests) - 5)
                              \o " more)"
                       ELSE "")>>
        ELSE <<>>)
  \o (IF profile.career_goal # ""
        THEN <<"Career Goal: " \o Title(profile.career_goal)>>
        ELSE <<>>)
  \o (IF profile.additional_info # ""
        THEN <<"Additional Notes: " \o Take(profile.additional_info, 100)
                 \o "...">>
        ELSE <<>>)

\* lines 201-228
summary_parts(profile) ==
  (IF profile.education_level # ""
     THEN <<"Education Level: " \o Title(profile.education_level)>>
     ELSE <<>>)
  \o (IF profile.interests # <<>>
        THEN <<"Interests: " \o Join(", ", Take(profile.interests, 5))
                 \o (IF Len(profile.interests) > 5
                       THEN " (and " \o ToString(Len(profile.interests) - 5)
                              \o " more)"
                       ELSE "")>>
        ELSE <<>>)
  \o (IF profile.career_goal # ""
        THEN <<"Career Goal: " \o Title(profile.career_goal)>>
        ELSE <<>>)
  \o (IF profile.additional_info # "" /\ Len(profile.additional_info) > 10
        THEN <<"Additional Notes: " \o Take(profile.additional_info, 100)
                 \o "...">>
        ELSE <<>>)

create_profile_summary(profile) ==
  IF summary_parts(profile) # <<>>
    THEN Join("\n", summary_parts(profile))
    ELSE "Profile information not provided"

\* app.py line 69: the summary of the profile just returned
CreateProfileSummary ==
  /\ call.op = "process_user_input"
  /\ ~ret.raised
  /\ call' = [op |-> "create_profile_summary", profile |-> ret.profile]
  /\ ret' = Returns(create_profile_summary(ret.profile))
  /\ UNCHANGED <<courses, advisor>>

\* a profile as the JSON body of a request: its strings and its list of
\* strings; process_user_input reads no other key
as_raw_input(profile) ==
  [education_level |-> PyStr(profile.education_level),
   interests       |-> PyList([i \in 1..Len(profile.interests) |->
                                 PyStr(profile.interests[i])]),
   career_goal     |-> PyStr(profile.career_goal),
   additional_info |-> PyStr(profile.additional_info)]

\* process_user_input applied to the profile it returned
ProcessAgain ==
  /\ call.op = "process_user_input"
  /\ ~ret.raised
  /\ call' = [op |-> "process_user_input twice",
              raw_input |-> call.raw_input, once |-> ret.profile]
  /\ ret' = process_user_input(as_raw_input(ret.profile))
  /\ UNCHANGED <<courses, advisor>>

NextProfile ==
  \/ ProcessUserInput
  \/ ValidateProfile
  \/ CreateProfileSummary
  \/ ProcessAgain
  \/ Return

SpecProfile == InitProfile /\ [][NextProfile]_vars

(***************************************************************************)
(* The construction of CourseRAG (src/src/rag_system.py lines 13-33) from  *)
(* the catalog file, and the operations on the object constructed.  The    *)
(* constructor returns the value it stored in self.courses; the variable   *)
(* courses is that value when it is a list.                                *)
(***************************************************************************)

\* open() raises FileNotFoundError
FileMissing == [content |-> "missing"]

\* json.load raises JSONDecodeError
FileInvalid == [content |-> "invalid"]

\* json.load returns data
FileJson(data) == [content |-> "json", data |-> data]

\* a JSON object, with or without the key 'courses'
JsonObject(has_courses, value) ==
  [kind |-> "dict", has_courses |-> has_courses, courses |-> value]

\* the two handlers of lines 28-33 return []; data.get exists on a dict only
load_course_catalog(file) ==
  IF file.content \in {"missing", "invalid"} THEN Returns(PyList(<<>>))
  ELSE IF file.data.kind # "dict" THEN AttributeError
  ELSE IF file.data.has_courses THEN Returns(file.data.courses)
  ELSE Returns(PyList(<<>>))

\* iterating over self.courses when it is not a list
TypeError == [raised |-> TRUE, error |-> "TypeError"]

\* an operation that iterates over the self.courses the constructor stored
on_loaded(loaded, value) ==
  IF loaded.kind = "list" THEN Returns(value) ELSE TypeError

\* the dict returned for an id that no course has
EmptyDict == [k \in {} |-> k]

get_course_by_id(course_id) ==
  IF \E i \in 1..Len(courses) : courses[i].id = course_id
    THEN courses[CHOOSE i \in 1..Len(courses) :
                   /\ courses[i].id = course_id
                   /\ \A j \in 1..(i - 1) : courses[j].id # course_id]
    ELSE EmptyDict

\* the catalogs a file holds
FileCatalogs == {Catalog(n, pattern) : n \in {0, 3}, pattern \in Patterns}

CatalogFiles ==
  { FileMissing, FileInvalid, FileJson(PyList(<<>>)), FileJson(PyInt(3)),
    FileJson(JsonObject(FALSE, PyNone)), FileJson(JsonObject(TRUE, PyNone)) }
    \cup {FileJson(JsonObject(TRUE, PyList(c))) : c \in FileCatalogs}

CourseIds == {"CRS101", "CRS103", "XYZ999"}

CategoryNames == {"Business", "Computer Science", "Fine Arts"}

\* no object has been constructed
InitLoad ==
  /\ courses = <<>>
  /\ call = NoCall
  /\ ret = NoCall
  /\ advisor = unavailable_advisor

Construct ==
  \E file \in CatalogFiles :
    /\ call = NoCall
    /\ call' = [op |-> "__init__", file |-> file]
    /\ ret' = load_course_catalog(file)
    /\ courses' = IF ~ret'.raised /\ ret'.value.kind = "list"
                    THEN ret'.value.items ELSE <<>>
    /\ UNCHANGED advisor

IsConstructed == call.op = "__init__" /\ ~ret.raised

LoadedSearchByLevel ==
  \E level \in ProfileLevels \ {""} :
    /\ IsConstructed
    /\ call' = [op |-> "search_courses_by_level", file |-> call.file,
                level |-> level]
    /\ ret' = on_loaded(ret.value, search_courses_by_level(level))
    /\ UNCHANGED <<courses, advisor>>

LoadedSearchByKeywords ==
  \E keywords \in KeywordLists :
    /\ IsConstructed
    /\ call' = [op |-> "search_courses_by_keywords", file |-> call.file,
                keywords |-> keywords]
    /\ ret' = on_loaded(ret.value,
                        search_courses_by_keywords(keywords,
                                                   DefaultMaxResults))
    /\ UNCHANGED <<courses, advisor>>

LoadedSearchByCategory ==
  \E category \in CategoryNames :
    /\ IsConstructed
    /\ call' = [op |-> "search_courses_by_category", file |-> call.file,
                category |-> category]
    /\ ret' = on_loaded(ret.value, search_courses_by_category(category))
    /\ UNCHANGED <<courses, advisor>>

LoadedSearchByCareerGoal ==
  \E career_goal \in ProfileGoals \ {""} :
    /\ IsConstructed
    /\ call' = [op |-> "search_courses_by_career_goal", file |-> call.file,
                career_goal |-> career_goal]
    /\ ret' = on_loaded(ret.value, search_courses_by_career_goal(career_goal))
    /\ UNCHANGED <<courses, advisor>>

LoadedGetRecommendedCourses ==
  \E user_profile \in Profiles :
    /\ IsConstructed
    /\ call' = [op |-> "get_recommended_courses", file |-> call.file,
                user_profile |-> user_profile]
    /\ ret' = on_loaded(ret.value, get_recommended_courses(user_profile).result)
    /\ UNCHANGED <<courses, advisor>>

LoadedGetCourseById ==
  \E course_id \in CourseIds :
    /\ IsConstructed
    /\ call' = [op |-> "get_course_by_id", file |-> call.file,
                course_id |-> course_id]
    /\ ret' = on_loaded(ret.value, get_course_by_id(course_id))
    /\ UNCHANGED <<courses, advisor>>

NextLoad ==
  \/ Construct
  \/ LoadedSearchByLevel
  \/ LoadedSearchByKeywords
  \/ LoadedSearchByCategory
  \/ LoadedSearchByCareerGoal
  \/ LoadedGetRecommendedCourses
  \/ LoadedGetCourseById
  \/ Return

SpecLoad == InitLoad /\ [][NextLoad]_vars

(***************************************************************************)
(* AICourseAdvisor (src/src/llm_integration.py) and the two formatting     *)
(* methods of CourseRAG it was written for.  The variable advisor is the   *)
(* object of app.py line 18: its chat session, which the generation        *)
(* service library keeps with the history of the conversation (created     *)
(* with history=[] at line 26), and its CourseRAG, which reads the same    *)
(* catalog file as courses.  A prompt is kept as its template and the      *)
(* texts substituted into it.                                              *)
(***************************************************************************)

\* course.get(field, default)
CourseGet(course, field, default) ==
  IF field \in DOMAIN course THEN course[field] ELSE default

\* rag_system.py lines 265-275; credits is a number, semesters a list
format_course_for_llm(course) ==
  "\nCourse: " \o CourseGet(course, "title", "N/A")
    \o " (" \o CourseGet(course, "id", "N/A") \o ")"
    \o "\nLevel: " \o CourseGet(course, "level", "N/A")
    \o "\nCategory: " \o CourseGet(course, "category", "N/A")
    \o "\nCredits: "
    \o (IF "credits" \in DOMAIN course THEN ToString(course.credits) ELSE "N/A")
    \o "\nDescription: " \o CourseGet(course, "description", "N/A")
    \o "\nPrerequisites: " \o CourseGet(course, "prerequisites", "None")
    \o "\nAvailable: " \o Join(", ", CourseGet(course, "semesters", <<>>))
    \o "\n"

\* rag_system.py lines 277-286
get_context_for_llm(recommended_courses) ==
  LET Context[i \in 0..Len(recommended_courses)] ==
        IF i = 0 THEN "Here are the recommended courses:\n\n"
        ELSE Context[i - 1] \o ToString(i) \o ". "
               \o format_course_for_llm(recommended_courses[i]) \o "\n"
  IN  IF recommended_courses = <<>>
        THEN "No courses found matching the criteria."
        ELSE Context[Len(recommended_courses)]

level_mappings ==
  << <<"1st year", "1st Year (Freshman)">>,
     <<"2nd year", "2nd Year (Sophomore)">>,
     <<"3rd year", "3rd Year (Junior)">>,
     <<"4th year", "4th Year (Senior)">>,
     <<"graduate", "Graduate Student">> >>

_format_education_level(education_level) ==
  IF education_level = "" \/ education_level = "Not specified"
    THEN "Not specified"
    ELSE DictGet(level_mappings, Lower(education_level),
                 Title(education_level))

\* lines 133-181: the lines of the prompt that depend on the arguments; the
\* profile has its five keys, so the defaults of the .get calls are not used
_create_recommendation_prompt(user_profile, course_context) ==
  [template           |-> "recommendation",
   education_level    |->
     "- Education Level: " \o _format_education_level(user_profile.education_level),
   interests          |->
     "- Interests: " \o (IF user_profile.interests # <<>>
                           THEN Join(", ", user_profile.interests)
                           ELSE "Not specified"),
   career_goal        |-> "- Career Goal: " \o user_profile.career_goal,
   additional_info    |->
     "- Additional Information: " \o user_profile.additional_info,
   exact_text         |-> _format_education_level(user_profile.education_level),
   available_courses  |-> course_context]

\* a string the code itself returns
Fixed(text) == [kind |-> "fixed", text |-> text]

\* the text the service generates for a prompt sent after the given turns of
\* conversation
Generated(prompt, history) ==
  [kind |-> "generated", prompt |-> prompt, turns |-> Len(history)]

\* what the service does when it is called: it responds or the call raises
\* (an error of the service, a timeout, a response without text)
ServiceOutcomes == {"responds", "raises"}

ServiceError == [raised |-> TRUE, error |-> "Exception"]

\* self.model.generate_content(prompt) and response.text
generate_content(prompt, outcome) ==
  IF outcome = "raises" THEN ServiceError
  ELSE Returns(Generated(prompt, <<>>))

\* self.chat.send_message(prompt) and response.text: the history is sent with
\* the prompt, and the prompt and the response are appended to it
send_message(chat, prompt, outcome) ==
  IF outcome = "raises" THEN [raised |-> TRUE, chat |-> chat]
  ELSE [raised |-> FALSE,
        value  |-> Generated(prompt, chat.history),
        chat   |-> [kind    |-> "chat",
                    history |-> chat.history
                                  \o <<[role |-> "user", parts |-> prompt],
                                       [role  |-> "model",
                                        parts |-> Generated(prompt, chat.history)]>>]]

\* the AICourseAdvisor whose construction succeeded (lines 24-29)
available_advisor ==
  [chat       |-> [kind |-> "chat", history |-> <<>>],
   rag_system |-> [kind |-> "CourseRAG"]]

\* line 73: CourseRAG has no attribute get_relevant_courses_context
get_relevant_courses_context(user_profile) == AttributeError

\* what a method returns and the chat session it leaves
Leaves(value, chat) == [value |-> value, chat |-> chat]

get_course_recommendations(user_profile, outcome) ==
  IF advisor.chat.kind = "none" \/ advisor.rag_system.kind = "none"
    THEN Fixed("I'm sorry, the course advisor system is not available right now.")
  ELSE LET course_context == get_relevant_courses_context(user_profile)
       IN  IF course_context.raised
             THEN Fixed("I encountered an error while generating your course recommendations. Please try again.")
           ELSE LET response ==
                      generate_content(
                        _create_recommendation_prompt(user_profile,
                                                      course_context.value),
                        outcome)
                IN  IF response.raised
                      THEN Fixed("I encountered an error while generating your course recommendations. Please try again.")
                      ELSE response.value

\* propagates what send_message raises
answer_course_question_uncaught(question, context, outcome) ==
  IF advisor.chat.kind = "none"
    THEN Leaves(Fixed("I'm sorry, I cannot answer questions right now."),
                advisor.chat)
  ELSE LET sent == send_message(advisor.chat,
                                [template |-> "question", context |-> context,
                                 question |-> question],
                                outcome)
       IN  IF sent.raised THEN [raised |-> TRUE, chat |-> sent.chat]
           ELSE Leaves(sent.value, sent.chat)

answer_course_question(question, context, outcome) ==
  IF advisor.chat.kind = "none"
    THEN Leaves(Fixed("I'm sorry, I cannot answer questions right now."),
                advisor.chat)
  ELSE LET sent == send_message(advisor.chat,
                                [template |-> "question", context |-> context,
                                 question |-> question],
                                outcome)
       IN  IF sent.raised
             THEN Leaves(Fixed("I encountered an error while processing your question. Please try asking again."),
                         sent.chat)
           ELSE Leaves(sent.value, sent.chat)

get_course_details(course_id, outcome) ==
  IF advisor.rag_system.kind = "none"
    THEN Leaves(Fixed("Course information is not available right now."),
                advisor.chat)
  ELSE LET course == get_course_by_id(course_id)
       IN  IF course = EmptyDict
             THEN Leaves(Fixed("I couldn't find information for course "
                                 \o course_id
                                 \o ". Please check the course ID and try again."),
                         advisor.chat)
           ELSE LET sent == send_message(advisor.chat,
                                         [template    |-> "course",
                                          course_info |->
                                            format_course_for_llm(course)],
                                         outcome)
                IN  IF sent.raised
                      THEN Leaves(Fixed("Here's the basic information for "
                                          \o CourseGet(course, "title", course_id)
                                          \o ":\n\n"
                                          \o format_course_for_llm(course)),
                                  sent.chat)
                      ELSE Leaves(sent.value, sent.chat)

chat_with_advisor(message, outcome) ==
  IF advisor.chat.kind = "none"
    THEN Leaves(Fixed("I'm sorry, the advisor chat is not available right now."),
                advisor.chat)
  ELSE LET sent == send_message(advisor.chat,
                                [template |-> "chat", message |-> message],
                                outcome)
       IN  IF sent.raised
             THEN Leaves(Fixed("I'm having trouble responding right now. Could you please try asking your question again?"),
                         sent.chat)
           ELSE Leaves(sent.value, sent.chat)

(***************************************************************************)
(* The calls made to the advisor                                           *)
(***************************************************************************)

\* the turns of conversation a chat session is followed for
MaxTurns == 2

Messages == {"What should I take for pre-med?", "Is CRS101 hard?"}

AdvisorProfiles ==
  { [education_level |-> "", interests |-> <<>>, career_goal |-> "",
     preferred_categories |-> <<>>, additional_info |-> ""],
    [education_level |-> "1st year", interests |-> <<"AI/ML", "art">>,
     career_goal |-> "software engineer",
     preferred_categories |-> <<"Fine Arts">>,
     additional_info |-> "evening classes"],
    [education_level |-> " 5th year ", interests |-> <<"programming">>,
     career_goal |-> "", preferred_categories |-> <<"Computer Science">>,
     additional_info |-> ""],
    [education_level |-> "Graduate", interests |-> <<>>,
     career_goal |-> "artist", preferred_categories |-> <<>>,
     additional_info |-> ""] }

\* how far the try block of __init__ (lines 18-49) gets: the key is missing
\* (line 22), a call of the library raises, the catalog cannot be built
\* (line 29), or nothing raises
Constructions ==
  {"no api key", "configure raises", "start_chat raises", "CourseRAG raises",
   "constructed"}

\* the fields assigned in the try block when it stops: self.chat is assigned
\* at line 26, before self.rag_system at line 29
assigned_in_try(construction) ==
  [chat       |-> IF construction \in {"CourseRAG raises", "constructed"}
                    THEN available_advisor.chat ELSE [kind |-> "none"],
   rag_system |-> IF construction = "constructed"
                    THEN available_advisor.rag_system ELSE [kind |-> "none"]]

\* a handler that leaves the fields as the try block left them
__init___without_reset(construction) == assigned_in_try(construction)

\* lines 17-54: the handler of line 51 sets both fields to None
__init__(construction) ==
  IF construction = "constructed" THEN assigned_in_try(construction)
  ELSE unavailable_advisor

InitAdvisor ==
  /\ courses \in FileCatalogs
  /\ call = NoCall
  /\ ret = NoCall
  /\ advisor \in {__init__(construction) : construction \in Constructions}

\* the conversation is followed for MaxTurns turns
WithinTurns ==
  advisor.chat.kind = "chat" => Len(advisor.chat.history) < 2 * MaxTurns

GetCourseRecommendations ==
  \E user_profile \in AdvisorProfiles, outcome \in ServiceOutcomes :
    /\ call = NoCall
    /\ call' = [op |-> "advisor.get_course_recommendations",
                user_profile |-> user_profile, service |-> outcome,
                chat |-> advisor.chat]
    /\ ret' = Returns(get_course_recommendations(user_profile, outcome))
    /\ UNCHANGED <<courses, advisor>>

\* _create_recommendation_prompt for a profile and the context of the
\* courses recommended for it
CreateRecommendationPrompt ==
  \E user_profile \in AdvisorProfiles :
    /\ call = NoCall
    /\ call' = [op |-> "advisor._create_recommendation_prompt",
                user_profile |-> user_profile]
    /\ ret' = Returns(_create_recommendation_prompt(
                        user_profile,
                        get_context_for_llm(
                          get_recommended_courses(user_profile).result)))
    /\ UNCHANGED <<courses, advisor>>

\* what a method that may raise hands to its caller
Outcome(left) ==
  IF "raised" \in DOMAIN left THEN ServiceError ELSE Returns(left.value)

AnswerCourseQuestion ==
  \E question \in Messages, context \in {"", "CRS101"},
     outcome \in ServiceOutcomes :
    /\ call = NoCall
    /\ WithinTurns
    /\ call' = [op |-> "advisor.answer_course_question",
                question |-> question, context |-> context,
                service |-> outcome, chat |-> advisor.chat]
    /\ ret' = Outcome(answer_course_question(question, context, outcome))
    /\ advisor' = [advisor EXCEPT
                     !.chat = answer_course_question(question, context,
                                                     outcome).chat]
    /\ UNCHANGED courses

GetCourseDetails ==
  \E course_id \in CourseIds, outcome \in ServiceOutcomes :
    /\ call = NoCall
    /\ WithinTurns
    /\ call' = [op |-> "advisor.get_course_details", course_id |-> course_id,
                service |-> outcome, chat |-> advisor.chat]
    /\ ret' = Outcome(get_course_details(course_id, outcome))
    /\ advisor' = [advisor EXCEPT
                     !.chat = get_course_details(course_id, outcome).chat]
    /\ UNCHANGED courses

ChatWithAdvisor ==
  \E message \in Messages, outcome \in ServiceOutcomes :
    /\ call = NoCall
    /\ WithinTurns
    /\ call' = [op |-> "advisor.chat_with_advisor", message |-> message,
                service |-> outcome, chat |-> advisor.chat]
    /\ ret' = Outcome(chat_with_advisor(message, outcome))
    /\ advisor' = [advisor EXCEPT
                     !.chat = chat_with_advisor(message, outcome).chat]
    /\ UNCHANGED courses

NextAdvisor ==
  \/ GetCourseRecommendations
  \/ CreateRecommendationPrompt
  \/ AnswerCourseQuestion
  \/ GetCourseDetails
  \/ ChatWithAdvisor
  \/ Return

SpecAdvisor == InitAdvisor /\ [][NextAdvisor]_vars

(***************************************************************************)
(* The lists of CourseRAG as objects.  A Python name holds a reference to  *)
(* a list, and append and extend change the list the name refers to.  The  *)
(* objects of a call of get_recommended_courses are the catalog list       *)
(* (self.courses) and the lists the call creates; level_courses and        *)
(* interest_courses name the catalog list itself when the profile has no   *)
(* level (line 207) and no interests (line 217).  The other operations     *)
(* build their results with list comprehensions over self.courses or, in   *)
(* search_courses_by_keywords, append to and sort a list of their own      *)
(* (lines 61, 121, 124), and hold no second name for the catalog list.     *)
(***************************************************************************)

\* rag_system.py lines 260-263
get_courses_by_semester(semester) ==
  SelectSeq(courses,
            LAMBDA course :
              \E i \in 1..Len(CourseGet(course, "semesters", <<>>)) :
                Lower(course.semesters[i]) = Lower(semester))

\* the list objects at the start of get_recommended_courses, those the call
\* creates being empty
created_lists(user_profile) ==
  [list \in {"self.courses", "level_courses", "interest_courses",
             "category_courses", "unique_courses"} |->
     IF list = "self.courses" THEN courses
     ELSE IF list = "level_courses" /\ user_profile.education_level # ""
       THEN search_courses_by_level(user_profile.education_level)
     ELSE <<>>]

\* lines 204-207: the list the name level_courses refers to
level_list(user_profile) ==
  IF user_profile.education_level # "" THEN "level_courses"
  ELSE "self.courses"

\* interest_courses starts as another name of level_courses
interest_list_shared(user_profile) == level_list(user_profile)

\* lines 211-217: the list the name interest_courses refers to
interest_list(user_profile) ==
  IF user_profile.interests # <<>> THEN "interest_courses"
  ELSE level_list(user_profile)

\* list.extend and list.append
extend(lists, list, items) == [lists EXCEPT ![list] = @ \o items]

\* lines 212-215
after_interest_pass(user_profile) ==
  LET interests == user_profile.interests
      F[i \in 0..Len(interests)] ==
        IF i = 0 THEN created_lists(user_profile)
        ELSE extend(F[i - 1], interest_list(user_profile),
                    search_courses_by_keywords(<<interests[i]>>,
                                               InterestMaxResults))
  IN  F[Len(interests)]

\* lines 227-231
after_category_pass(user_profile) ==
  extend(after_interest_pass(user_profile), "category_courses",
         category_courses(user_profile))

\* lines 234-249: the lists when the call returns
lists_at_return(user_profile) ==
  Only({
    extend(lists, "unique_courses",
           backfill(merge_walk(all_courses(career_courses(user_profile),
                                           lists[interest_list(user_profile)],
                                           lists["category_courses"]),
                               lists[level_list(user_profile)]),
                    lists[level_list(user_profile)]).unique_courses)
    : lists \in {after_category_pass(user_profile)} })

\* a catalog whose courses name their semesters
CatalogWithSemesters ==
  [i \in 1..3 |->
     [id          |-> "SEM" \o ToString(200 + i),
      title       |-> CourseKinds[i].title,
      description |-> CourseKinds[i].description,
      category    |-> CourseKinds[i].category,
      level       |-> CourseKinds[i].level,
      keywords    |-> CourseKinds[i].keywords,
      semesters   |-> IF i = 2 THEN <<"Spring">> ELSE <<"Fall", "Spring">>]]

Semesters == {"fall", "Spring", "summer"}

LoadedCatalogs == FileCatalogs \cup {CatalogWithSemesters, Catalog(9, <<1, 3>>)}

\* a CourseRAG right after loading
InitCatalog ==
  /\ courses \in LoadedCatalogs
  /\ call = NoCall
  /\ ret = NoCall
  /\ advisor = unavailable_advisor

CatalogSearchByLevel ==
  \E level \in ProfileLevels \ {""} :
    /\ call = NoCall
    /\ call' = [op |-> "search_courses_by_level", level |-> level]
    /\ ret' = Returns(search_courses_by_level(level))
    /\ UNCHANGED <<courses, advisor>>

CatalogSearchByKeywords ==
  \E keywords \in KeywordLists :
    /\ call = NoCall
    /\ call' = [op |-> "search_courses_by_keywords", keywords |-> keywords]
    /\ ret' = Returns(search_courses_by_keywords(keywords, DefaultMaxResults))
    /\ UNCHANGED <<courses, advisor>>

CatalogSearchByCategory ==
  \E category \in CategoryNames :
    /\ call = NoCall
    /\ call' = [op |-> "search_courses_by_category", category |-> category]
    /\ ret' = Returns(search_courses_by_category(category))
    /\ UNCHANGED <<courses, advisor>>

CatalogSearchByCareerGoal ==
  \E career_goal \in ProfileGoals \ {""} :
    /\ call = NoCall
    /\ call' = [op |-> "search_courses_by_career_goal",
                career_goal |-> career_goal]
    /\ ret' = Returns(search_courses_by_career_goal(career_goal))
    /\ UNCHANGED <<courses, advisor>>

\* the call leaves in self.courses what its appends and extends made of the
\* catalog list
CatalogGetRecommendedCourses ==
  \E user_profile \in Profiles :
    /\ call = NoCall
    /\ call' = [op |-> "get_recommended_courses",
                user_profile |-> user_profile, loaded |-> courses]
    /\ ret' = Returns(Take(lists_at_return(user_profile)["unique_courses"],
                           MaxRecommendations))
    /\ courses' = lists_at_return(user_profile)["self.courses"]
    /\ UNCHANGED advisor

CatalogGetCourseById ==
  \E course_id \in CourseIds \cup {"SEM202"} :
    /\ call = NoCall
    /\ call' = [op |-> "get_course_by_id", course_id |-> course_id]
    /\ ret' = Returns(get_course_by_id(course_id))
    /\ UNCHANGED <<courses, advisor>>

CatalogGetCoursesBySemester ==
  \E semester \in Semesters :
    /\ call = NoCall
    /\ call' = [op |-> "get_courses_by_semester", semester |-> semester]
    /\ ret' = Returns(get_courses_by_semester(semester))
    /\ UNCHANGED <<courses, advisor>>

NextCatalog ==
  \/ CatalogSearchByLevel
  \/ CatalogSearchByKeywords
  \/ CatalogSearchByCategory
  \/ CatalogSearchByCareerGoal
  \/ CatalogGetRecommendedCourses
  \/ CatalogGetCourseById
  \/ CatalogGetCoursesBySemester
  \/ Return

SpecCatalog == InitCatalog /\ [][NextCatalog]_vars

(***************************************************************************)
(* The /api/recommend handler (src/app.py lines 27-93).  A request is its  *)
(* JSON body, the keys of process_user_input and course_count; a response  *)
(* is its status and the fields of its JSON.                               *)
(***************************************************************************)

\* line 61: the default of course_count
DefaultCourseCount == 10

\* recommended_courses[:course_count]
Slice(seq, n) ==
  IF n >= 0 THEN Take(seq, n)
  ELSE IF Len(seq) + n > 0 THEN SubSeq(seq, 1, Len(seq) + n)
  ELSE <<>>

\* lines 61-63; comparing a length with a string or a list raises
limit_to_course_count(recommended_courses, raw_input) ==
  LET course_count == RawGet(raw_input, "course_count",
                             PyInt(DefaultCourseCount))
  IN  IF ~Truthy(course_count) THEN Returns(recommended_courses)
      ELSE IF course_count.kind # "int" THEN TypeError
      ELSE IF Len(recommended_courses) > course_count.int
        THEN Returns(Slice(recommended_courses, course_count.int))
      ELSE Returns(recommended_courses)

BodyKeys ==
  {"education_level", "interests", "career_goal", "additional_info",
   "course_count"}

\* lines 88-93
ServerError ==
  [status  |-> 500,
   success |-> FALSE,
   error   |-> "An error occurred while generating recommendations. Please try again."]

\* lines 41-93
get_recommendations(raw_input) ==
  IF \A key \in BodyKeys : raw_input[key].kind = "absent"
    THEN [status |-> 400, error |-> "No input data provided"]
  ELSE LET processed == process_user_input(raw_input)
       IN  IF processed.raised THEN ServerError
           ELSE LET limited ==
                      limit_to_course_count(
                        get_recommended_courses(processed.profile).result,
                        raw_input)
                IN  IF limited.raised THEN ServerError
                    ELSE [status          |-> 200,
                          courses         |-> limited.value,
                          profile_summary |->
                            create_profile_summary(processed.profile),
                          validation      |->
                            validate_profile(processed.profile),
                          success         |-> TRUE,
                          count           |-> Len(limited.value),
                          debug_info      |->
                            [interests_received  |->
                               RawGet(raw_input, "interests", PyList(<<>>)),
                             academic_level      |->
                               RawGet(raw_input, "education_level",
                                      PyStr("Unknown")),
                             courses_found_total |->
                               Len(search_courses_by_keywords(
                                     processed.profile.interests,
                                     DefaultMaxResults)),
                             courses_returned    |-> Len(limited.value),
                             profile_processed   |-> TRUE]]

CourseCounts ==
  { PyAbsent, PyNone, PyInt(0), PyInt(3), PyInt(10), PyInt(11), PyInt(20),
    PyInt(0 - 1), PyStr("5") }

RequestBodies ==
  [education_level : {PyAbsent, PyInt(2), PyStr("Freshman"), PyStr("2nd year")},
   interests       : {PyAbsent, PyStr("art and programming"),
                      PyList(<<PyStr("AI/ML")>>)},
   career_goal     : {PyAbsent, PyStr("Data Scientist")},
   additional_info : {PyAbsent},
   course_count    : CourseCounts]

ServedCatalogs ==
  { Catalog(0, <<1>>), Catalog(3, <<1, 2>>), Catalog(MaxCourses, <<1>>),
    Catalog(MaxCourses, <<1, 3>>), Catalog(MaxCourses, <<2, 5, 3>>) }

\* the server has loaded its catalog
InitApi ==
  /\ courses \in ServedCatalogs
  /\ call = NoCall
  /\ ret = NoCall
  /\ advisor = unavailable_advisor

Recommend ==
  \E raw_input \in RequestBodies :
    /\ call = NoCall
    /\ call' = [op |-> "POST /api/recommend", raw_input |-> raw_input]
    /\ ret' = get_recommendations(raw_input)
    /\ UNCHANGED <<courses, advisor>>

NextApi == Recommend \/ Return

SpecApi == InitApi /\ [][NextApi]_vars

(***************************************************************************)
(* Properties of get_recommended_courses                                   *)
(***************************************************************************)

IsRecommendation == call.op = "get_recommended_courses"

Ids(seq) == {seq[i].id : i \in 1..Len(seq)}

HasRepeatedId(seq) ==
  \E i, j \in 1..Len(seq) : i < j /\ seq[i].id = seq[j].id

\* C1: a recommendation has at most 12 courses and no two of them have the
\* same id.
RecommendationBoundedDistinct ==
  IsRecommendation =>
    /\ Len(ret.result) <= 12
    /\ ~HasRepeatedId(ret.result)

\* the passes return some course more than once, the walk keeps some courses,
\* the backfill adds others and the result is full
RecommendationBoundedDistinctWitness ==
  /\ IsRecommendation
  /\ HasRepeatedId(all_courses(ret.career_courses, ret.interest_courses,
                               ret.category_courses))
  /\ ret.merged # <<>>
  /\ Len(ret.merged) < 8
  /\ Len(ret.level_courses) > 12
  /\ Len(ret.result) = 12

\* the names a level goes by, per canonical level
LevelNames ==
  [canonical \in {"1st year", "2nd year", "3rd year", "4th year", "graduate"} |->
     CASE canonical = "1st year" -> {"freshman", "first year", "1st year"}
       [] canonical = "2nd year" -> {"sophomore", "second year", "2nd year"}
       [] canonical = "3rd year" -> {"junior", "third year", "3rd year"}
       [] canonical = "4th year" -> {"senior", "fourth year", "4th year"}
       [] canonical = "graduate" -> {"graduate", "grad", "masters", "phd"}]

\* the level a requested level stands for
RequestedLevel(level) ==
  IF \E canonical \in DOMAIN LevelNames : Lower(level) \in LevelNames[canonical]
    THEN CHOOSE canonical \in DOMAIN LevelNames :
           Lower(level) \in LevelNames[canonical]
    ELSE level

\* a course of this level is one the requested level permits
LevelPermits(requested, course_level) ==
  Lower(course_level) = Lower(RequestedLevel(requested))

\* C2: when the profile names a level, every recommended course has that
\* level, whatever pass matched it.
RecommendationWithinLevel ==
  IsRecommendation /\ call.user_profile.education_level # "" =>
    \A i \in 1..Len(ret.result) :
      LevelPermits(call.user_profile.education_level, ret.result[i].level)

\* the career, interest or category pass matched a course of another level
\* and the result is not empty
RecommendationWithinLevelWitness ==
  /\ IsRecommendation
  /\ call.user_profile.education_level # ""
  /\ ret.result # <<>>
  /\ LET all == all_courses(ret.career_courses, ret.interest_courses,
                            ret.category_courses)
     IN  \E i \in 1..Len(all) :
           ~LevelPermits(call.user_profile.education_level, all[i].level)

\* the courses of `all` that are in the universe, each at its first occurrence
FirstOccurrences(all, universe) ==
  LET kept == SelectSeq([i \in 1..Len(all) |-> i],
                LAMBDA i :
                  /\ InSeq(all[i], universe)
                  /\ \A j \in 1..(i - 1) :
                       all[j].id = all[i].id => ~InSeq(all[j], universe))
  IN  [k \in 1..Len(kept) |-> all[kept[k]]]

\* C3: what precedes the backfill is career pass + interest pass + category
\* pass, each course of the universe kept at its first occurrence; so a career
\* match precedes every course that only the other passes matched.
MergeKeepsFirstOccurrences ==
  IsRecommendation =>
    LET walked == FirstOccurrences(ret.career_courses \o ret.interest_courses
                                     \o ret.category_courses,
                                   ret.level_courses)
        n      == Min(Len(walked), 12)
    IN  /\ ret.merged = walked
        /\ SubSeq(ret.result, 1, n) = SubSeq(walked, 1, n)
        /\ \A i, j \in 1..Len(ret.merged) :
             /\ InSeq(ret.merged[i], ret.career_courses)
             /\ ~InSeq(ret.merged[j], ret.career_courses)
             => i < j

\* the career pass and another pass both matched courses of the universe, a
\* course the career pass did not match comes earlier in the catalog than
\* one it did, and some course was matched twice
MergeKeepsFirstOccurrencesWitness ==
  /\ IsRecommendation
  /\ HasRepeatedId(ret.career_courses \o ret.interest_courses
                     \o ret.category_courses)
  /\ \E i, j \in 1..Len(ret.merged) :
       /\ InSeq(ret.merged[i], ret.career_courses)
       /\ ~InSeq(ret.merged[j], ret.career_courses)
       /\ \E a, b \in 1..Len(courses) :
            a < b /\ courses[a] = ret.merged[j] /\ courses[b] = ret.merged[i]
  /\ \E i \in 1..Len(ret.interest_courses) :
       ~InSeq(ret.interest_courses[i], ret.level_courses)

\* the courses of the universe that the walk did not keep, in catalog order
NotYetChosen(merged, universe) ==
  SelectSeq(courses,
            LAMBDA course : InSeq(course, universe) /\ course.id \notin Ids(merged))

\* C4: fewer than 8 merged courses are followed by the not yet chosen courses
\* of the universe in catalog order, up to 12 in all; 8 or more are returned
\* as they are, cut to 12.
BackfillBelowEight ==
  IsRecommendation =>
    IF Len(ret.merged) < 8
      THEN ret.result =
             Take(ret.merged \o NotYetChosen(ret.merged, ret.level_courses), 12)
      ELSE ret.result = Take(ret.merged, 12)

\* for a profile with a level the walk kept some but fewer than 8 courses and
\* the backfill stopped at 12 with courses of the universe left over
BackfillBelowEightWitness ==
  /\ IsRecommendation
  /\ ret.merged # <<>>
  /\ Len(ret.merged) < 8
  /\ Len(ret.result) = 12
  /\ Len(NotYetChosen(ret.merged, ret.level_courses)) > 12 - Len(ret.merged)
  /\ call.user_profile.education_level # ""

\* C5: the universe is the whole catalog for an empty education_level and
\* otherwise the courses whose level is, whatever the letter case, the level
\* the education_level stands for.
UniverseIsLevelPass ==
  IsRecommendation =>
    ret.level_courses =
      IF call.user_profile.education_level = "" THEN courses
      ELSE SelectSeq(courses,
             LAMBDA course :
               LevelPermits(call.user_profile.education_level, course.level))

\* a level given by a synonym selects some but not all courses, one of them
\* with its level written in another letter case
UniverseIsLevelPassWitness ==
  /\ IsRecommendation
  /\ call.user_profile.education_level = "Freshman"
  /\ ret.level_courses # <<>>
  /\ ret.level_courses # courses
  /\ \E i \in 1..Len(ret.level_courses) :
       ret.level_courses[i].level = "1st Year"

(***************************************************************************)
(* Properties of search_courses_by_keywords                                *)
(***************************************************************************)

IsKeywordSearch == call.op = "search_courses_by_keywords"

\* title, description, category and keywords of a course in lower case
CombinedText(course) ==
  Lower(course.title) \o " " \o Lower(course.description) \o " "
    \o Lower(course.category) \o " " \o Lower(Join(" ", course.keywords))

\* 3 for a keyword in the title, else 2 for one in the description, else 1
Weight(course, kw) ==
  IF Contains(kw, Lower(course.title)) THEN 3
  ELSE IF Contains(kw, Lower(course.description)) THEN 2
  ELSE 1

\* the sum of the weights of the keywords found in the combined text
ClaimedScore(course, kws) ==
  LET F[i \in 0..Len(kws)] ==
        IF i = 0 THEN 0
        ELSE F[i - 1] + (IF Contains(kws[i], CombinedText(course))
                           THEN Weight(course, kws[i]) ELSE 0)
  IN  F[Len(kws)]

\* the claimed scores of a sequence of courses
ClaimedScores(seq, kws) ==
  LET F[i \in 0..Len(seq)] ==
        IF i = 0 THEN <<>> ELSE Append(F[i - 1], ClaimedScore(seq[i], kws))
  IN  F[Len(seq)]

\* where a course is in the catalog
CatalogIndex(course) == CHOOSE i \in 1..Len(courses) : courses[i] = course

\* C6: the search returns courses of positive score only, the score being the
\* sum over the expanded keywords found in the combined text of 3 (title),
\* else 2 (description), else 1; they come in descending score and are the
\* max_results best.
KeywordSearchByScore ==
  IsKeywordSearch =>
    Only({
      /\ Len(ret.result)
           = Min(call.max_results,
                 Cardinality({i \in 1..Len(courses) : all[i] > 0}))
      /\ \A k \in 1..Len(ret.result) :
           /\ InSeq(ret.result[k], courses)
           /\ ret.scores[k] = got[k]
           /\ got[k] > 0
      /\ \A k, l \in 1..Len(ret.result) :
           k < l => ret.result[k] # ret.result[l] /\ got[k] >= got[l]
      /\ \A i \in 1..Len(courses) :
           ~InSeq(courses[i], ret.result) =>
             \A k \in 1..Len(ret.result) : got[k] >= all[i]
      : all \in {ClaimedScores(courses, expanded_keywords(call.keywords))},
        got \in {ClaimedScores(ret.result, expanded_keywords(call.keywords))} })

\* more courses score than the cap lets through, the scores returned differ,
\* some course scores nothing, and one keyword counts 1 for a returned course
KeywordSearchByScoreWitness ==
  /\ IsKeywordSearch
  /\ Len(ret.result) = call.max_results
  /\ \E i \in 1..Len(courses) :
       /\ ~InSeq(courses[i], ret.result)
       /\ ClaimedScore(courses[i], expanded_keywords(call.keywords)) > 0
  /\ \E i \in 1..Len(courses) :
       ClaimedScore(courses[i], expanded_keywords(call.keywords)) = 0
  /\ ClaimedScore(ret.result[1], expanded_keywords(call.keywords))
       > ClaimedScore(ret.result[Len(ret.result)],
                      expanded_keywords(call.keywords))
  /\ \E k \in 1..Len(ret.result) :
       ClaimedScore(ret.result[k], <<Lower(call.keywords[1])>>) = 1

\* courses of equal score are returned in catalog order
TiesInCatalogOrder ==
  IsKeywordSearch =>
    Only({
      \A k, l \in 1..Len(ret.result) :
        k < l /\ got[k] = got[l] =>
          CatalogIndex(ret.result[k]) < CatalogIndex(ret.result[l])
      : got \in {ClaimedScores(ret.result, expanded_keywords(call.keywords))} })

\* the same search run again returns what it returned
SameSearchSameResult ==
  IsKeywordSearch /\ call' = call => ret' = ret

\* C7: a keyword search run twice on the same catalog with the same keywords
\* returns the same sequence, and courses of equal score come in catalog order.
KeywordSearchStable == []TiesInCatalogOrder /\ [][SameSearchSameResult]_vars

\* the result has courses of equal score and a course that the sort moved in
\* front of one that precedes it in the catalog
KeywordSearchStableWitness ==
  /\ IsKeywordSearch
  /\ \E k, l \in 1..Len(ret.result) :
       /\ k < l
       /\ ClaimedScore(ret.result[k], expanded_keywords(call.keywords))
            = ClaimedScore(ret.result[l], expanded_keywords(call.keywords))
  /\ \E k, l \in 1..Len(ret.result) :
       /\ k < l
       /\ CatalogIndex(ret.result[k]) > CatalogIndex(ret.result[l])

(***************************************************************************)
(* Properties of process_user_input                                        *)
(***************************************************************************)

IsProcessing == call.op = "process_user_input"

\* C8: process_user_input never raises, whatever the kinds of the values of
\* the raw input: it returns a profile.
ProcessUserInputTotal == IsProcessing => ~ret.raised

CanonicalLevels == {"1st year", "2nd year", "3rd year", "4th year", "graduate"}

\* C9 as stated: the education_level of a returned profile is a canonical
\* level name or the empty string.
EducationLevelCanonical ==
  IsProcessing /\ ~ret.raised
    => ret.profile.education_level \in CanonicalLevels \cup {""}

SynonymKeys == {input_level_map[i][1] : i \in 1..Len(input_level_map)}

\* C9: the education_level of a returned profile is a canonical level name,
\* the empty string, or the string supplied, unchanged, when its lower-cased
\* and trimmed form is not a key of the synonym table.
EducationLevelCanonicalOrUnchanged ==
  IsProcessing /\ ~ret.raised
    => LET supplied == call.raw_input.education_level
           level    == ret.profile.education_level
       IN  \/ level \in CanonicalLevels \cup {""}
           \/ /\ supplied.kind = "str"
              /\ level = supplied.str
              /\ Strip(Lower(supplied.str)) \notin SynonymKeys

EducationLevelCanonicalOrUnchangedWitness ==
  /\ IsProcessing
  /\ ~ret.raised
  /\ call.raw_input.education_level.kind = "str"
  /\ ret.profile.education_level = call.raw_input.education_level.str
  /\ ret.profile.education_level \notin CanonicalLevels \cup {""}
  /\ Lower(ret.profile.education_level) # ret.profile.education_level

\* the elements of a list as text, trimmed, the empty ones left out
TrimmedElements(items) ==
  LET texts == [i \in 1..Len(items) |-> Strip(ToStr(items[i]))]
  IN  SelectSeq(texts, LAMBDA t : t # "")

\* C10: interests supplied as a list come back with the letter case of every
\* element as supplied, trimmed and without the empty elements (the first 15
\* of them); interests supplied as one string come back all lower-case.
InterestsCaseByShape ==
  IsProcessing /\ ~ret.raised
    => LET supplied  == call.raw_input.interests
           interests == ret.profile.interests
       IN  /\ supplied.kind = "list"
                => interests = Take(TrimmedElements(supplied.items),
                                    MaxInterests)
           /\ supplied.kind = "str"
                => \A i \in 1..Len(interests) :
                     Lower(interests[i]) = interests[i]

InterestsCaseByShapeWitness ==
  /\ IsProcessing
  /\ ~ret.raised
  /\ call.raw_input.interests.kind = "list"
  /\ \E i \in 1..Len(ret.profile.interests) :
       /\ Lower(ret.profile.interests[i]) # ret.profile.interests[i]
       /\ \E j \in 1..Len(call.raw_input.interests.items) :
            /\ call.raw_input.interests.items[j].kind = "str"
            /\ call.raw_input.interests.items[j].str
                 # ret.profile.interests[i]
            /\ Strip(call.raw_input.interests.items[j].str)
                 = ret.profile.interests[i]

\* C11: a career goal that, lower-cased and trimmed, is a filler phrase of
\* the list followed by a space and a goal text comes back as that goal
\* text, trimmed.
CareerGoalFillerStripped ==
  IsProcessing /\ ~ret.raised /\ call.raw_input.career_goal.kind = "str"
    => LET clean == Strip(Lower(call.raw_input.career_goal.str))
       IN  \A k \in 1..Len(prefixes_to_remove) :
             StartsWith(clean, prefixes_to_remove[k] \o " ")
               => ret.profile.career_goal
                    = Strip(SubSeq(clean, Len(prefixes_to_remove[k]) + 2,
                                   Len(clean)))

(***************************************************************************)
(* Properties of validate_profile                                          *)
(***************************************************************************)

IsValidation == call.op = "validate_profile"

Elements(seq) == {seq[i] : i \in 1..Len(seq)}

\* C12: validate_profile reports no error, and warns of a missing level
\* exactly when education_level is empty, of missing interests exactly when
\* there are none, of too many interests exactly when there are more than
\* 10, and of a missing career goal exactly when career_goal is empty.
ValidationOnlyWarns ==
  IsValidation
    => /\ ret.errors = <<>>
       /\ Cardinality(Elements(ret.warnings)) = Len(ret.warnings)
       /\ Elements(ret.warnings)
            = {w \in {missing_level_warning, missing_interests_warning,
                      many_interests_warning, missing_career_warning} :
                 \/ w = missing_level_warning
                      /\ call.profile.education_level = ""
                 \/ w = missing_interests_warning
                      /\ Len(call.profile.interests) = 0
                 \/ w = many_interests_warning
                      /\ Len(call.profile.interests) > 10
                 \/ w = missing_career_warning
                      /\ call.profile.career_goal = ""}

ValidationOnlyWarnsWitness ==
  /\ IsValidation
  /\ Len(call.profile.interests) > 10
  /\ call.profile.career_goal = ""
  /\ call.profile.education_level # ""
  /\ ret.warnings = <<many_interests_warning, missing_career_warning>>

(***************************************************************************)
(* Properties of the construction of CourseRAG                             *)
(***************************************************************************)

\* the file is missing, is not JSON, or is not an object with a 'courses'
\* list
Malformed(file) ==
  \/ file.content \in {"missing", "invalid"}
  \/ /\ file.content = "json"
     /\ \/ file.data.kind # "dict"
        \/ ~file.data.has_courses
        \/ file.data.courses.kind # "list"

OnLoadedCatalog ==
  call.op \in {"search_courses_by_level", "search_courses_by_keywords",
               "search_courses_by_category", "search_courses_by_career_goal",
               "get_recommended_courses", "get_course_by_id"}

\* C13: from a missing or malformed catalog file CourseRAG is constructed
\* with an empty catalog, and every search, get_recommended_courses and
\* get_course_by_id on it returns an empty result; nothing raises.
MalformedCatalogLoadsEmpty ==
  /\ call.op = "__init__" /\ Malformed(call.file)
       => ~ret.raised /\ ret.value = PyList(<<>>)
  /\ OnLoadedCatalog /\ Malformed(call.file)
       => ~ret.raised /\ ret.value = <<>>

(***************************************************************************)
(* Properties of the passes of get_recommended_courses                     *)
(***************************************************************************)

\* the keywords of every career named in the goal, or else the words of the
\* goal
CareerKeywords(career_goal) ==
  LET named == {i \in 1..Len(career_keywords) :
                  Contains(career_keywords[i][1], Lower(career_goal))}
      Gathered[i \in 0..Len(career_keywords)] ==
        IF i = 0 THEN <<>>
        ELSE IF i \in named THEN Gathered[i - 1] \o career_keywords[i][2]
        ELSE Gathered[i - 1]
  IN  IF named = {} THEN SplitWords(Lower(career_goal))
      ELSE Gathered[Len(career_keywords)]

\* C17: the career-goal pass returns every course of the catalog whose score
\* for the career keywords is positive, however many there are.
CareerPassUncapped ==
  IsRecommendation /\ call.user_profile.career_goal # ""
    => LET kws == expanded_keywords(CareerKeywords(call.user_profile.career_goal))
       IN  \A i \in 1..Len(courses) :
             ClaimedScore(courses[i], kws) > 0
               => InSeq(courses[i], ret.career_courses)

\* one keyword search per interest, capped at 5, in the order of the interests
PerInterestSearches(interests) ==
  LET Found[i \in 0..Len(interests)] ==
        IF i = 0 THEN <<>>
        ELSE Found[i - 1] \o search_courses_by_keywords(<<interests[i]>>, 5)
  IN  Found[Len(interests)]

\* C18 as stated: the interest pass is the concatenation of one keyword
\* search per interest, each capped at 5 results, so at most 5 courses per
\* interest, and no course at all for an empty list of interests.
InterestPassPerInterest ==
  IsRecommendation
    => /\ ret.interest_courses = PerInterestSearches(call.user_profile.interests)
       /\ Len(ret.interest_courses) <= 5 * Len(call.user_profile.interests)

\* C18: for a list of interests that is not empty the interest pass is the
\* concatenation of one keyword search per interest, each capped at 5
\* results; for an empty list it is the whole level universe.
InterestPassOrUniverse ==
  IsRecommendation
    => IF call.user_profile.interests # <<>>
         THEN /\ ret.interest_courses
                   = PerInterestSearches(call.user_profile.interests)
              /\ Len(ret.interest_courses)
                   <= 5 * Len(call.user_profile.interests)
         ELSE ret.interest_courses = ret.level_courses

InterestPassOrUniverseWitness ==
  /\ IsRecommendation
  /\ call.user_profile.interests = <<>>
  /\ call.user_profile.career_goal = ""
  /\ call.user_profile.preferred_categories = <<>>
  /\ call.user_profile.education_level # ""
  /\ Len(ret.interest_courses) > 5
  /\ ret.merged = ret.level_courses

(***************************************************************************)
(* process_user_input applied twice                                        *)
(***************************************************************************)

\* a raw input of the shape of get_sample_inputs: a canonical level name, a
\* list of interest strings, a career goal without filler phrase, a string
\* of additional information
IsCanonicalInput(raw_input) ==
  /\ raw_input.education_level.kind = "str"
  /\ raw_input.education_level.str \in CanonicalLevels
  /\ raw_input.interests.kind = "list"
  /\ \A i \in 1..Len(raw_input.interests.items) :
       raw_input.interests.items[i].kind = "str"
  /\ raw_input.career_goal.kind = "str"
  /\ \A k \in 1..Len(prefixes_to_remove) :
       ~StartsWith(Strip(Lower(raw_input.career_goal.str)),
                   prefixes_to_remove[k])
  /\ raw_input.additional_info.kind = "str"

\* C16: on a canonical input, process_user_input applied to the profile it
\* returned returns that same profile.
ProcessUserInputIdempotent ==
  call.op = "process_user_input twice" /\ IsCanonicalInput(call.raw_input)
    => ~ret.raised /\ ret.profile = call.once

ProcessUserInputIdempotentWitness ==
  /\ call.op = "process_user_input twice"
  /\ IsCanonicalInput(call.raw_input)
  /\ ~ret.raised
  /\ ret.profile = call.once
  /\ Len(ret.profile.interests) > 1
  /\ ret.profile.preferred_categories # <<>>
  /\ ret.profile.career_goal # ""
  /\ ret.profile.additional_info # ""

(***************************************************************************)
(* Properties of AICourseAdvisor                                           *)
(***************************************************************************)

IsAdvisorCall ==
  /\ call # NoCall
  /\ call.op \in {"advisor.get_course_recommendations",
                  "advisor.answer_course_question",
                  "advisor.get_course_details",
                  "advisor.chat_with_advisor"}

\* C14: get_course_recommendations, answer_course_question,
\* get_course_details and chat_with_advisor never raise, and when the call to
\* the generation service fails each of them returns a string of the code's
\* own instead
ServiceFailureCaught ==
  IsAdvisorCall =>
    /\ ret.raised = FALSE
    /\ call.service = "raises" => ret.value.kind = "fixed"

\* the service failed under get_course_details for a course of the catalog,
\* and the method returned the course's own text
ServiceFailureCaughtWitness ==
  /\ IsAdvisorCall
  /\ call.service = "raises"
  /\ call.op = "advisor.get_course_details"
  /\ call.chat.kind = "chat"
  /\ get_course_by_id(call.course_id) # EmptyDict
  /\ ret = Returns(Fixed("Here's the basic information for "
                           \o get_course_by_id(call.course_id).title
                           \o ":\n\n"
                           \o format_course_for_llm(
                                get_course_by_id(call.course_id))))

\* the requests of app.py that reach the advisor: /api/chat (line 113) and
\* /api/course/<course_id> (line 131)
IsAdvisorRequest ==
  /\ call # NoCall
  /\ call.op \in {"advisor.chat_with_advisor", "advisor.get_course_details"}

\* C15: a request writes no state another request reads, and its outcome does
\* not depend on the requests before it: it leaves the advisor as it found
\* it, and what the service generates for it is generated from its own
\* prompt alone
RequestsShareNoState ==
  IsAdvisorRequest =>
    /\ advisor.chat = call.chat
    /\ (~ret.raised /\ ret.value.kind = "generated") => ret.value.turns = 0

\* C19: with the advisor constructed and the service responding,
\* get_course_recommendations returns the text the service generates for the
\* prompt built from the profile and the context of the recommended courses
RecommendationsFromService ==
  ( /\ call # NoCall
    /\ call.op = "advisor.get_course_recommendations"
    /\ call.chat.kind = "chat"
    /\ call.service = "responds" ) =>
      ret = Returns(Generated(
                      _create_recommendation_prompt(
                        call.user_profile,
                        get_context_for_llm(
                          get_recommended_courses(call.user_profile).result)),
                      <<>>))

\* C20: the prompt line of an empty education_level, of an empty interests
\* list and of an empty career_goal shows "Not specified"
PromptFallbackText ==
  ( /\ call # NoCall
    /\ call.op = "advisor._create_recommendation_prompt" ) =>
      /\ call.user_profile.education_level = ""
           => ret.value.education_level = "- Education Level: Not specified"
      /\ call.user_profile.interests = <<>>
           => ret.value.interests = "- Interests: Not specified"
      /\ call.user_profile.career_goal = ""
           => ret.value.career_goal = "- Career Goal: Not specified"

(***************************************************************************)
(* Properties of create_profile_summary                                    *)
(***************************************************************************)

IsSummary == call.op = "create_profile_summary"

NotProvided == "Profile information not provided"

\* C21: the summary is the fallback text exactly when the profile has no
\* education level, no interests, no career goal and no additional info
ProfileSummaryPerField ==
  IsSummary =>
    ( ret.value = NotProvided
        <=> /\ call.profile.education_level = ""
            /\ call.profile.interests = <<>>
            /\ call.profile.career_goal = ""
            /\ call.profile.additional_info = "" )

\* the lines of a summary: the level and the career goal in title case, the
\* first FirstInterests interests with the number of the others, and the
\* first NotesLength characters of additional info longer than ShortNotes
FirstInterests == 5

NotesLength == 100

ShortNotes == 10

SummaryLines(profile) ==
  (IF profile.education_level # ""
     THEN <<"Education Level: " \o Title(profile.education_level)>>
     ELSE <<>>)
  \o (IF Len(profile.interests) > FirstInterests
        THEN <<"Interests: "
                 \o Join(", ", SubSeq(profile.interests, 1, FirstInterests))
                 \o " (and "
                 \o ToString(Len(profile.interests) - FirstInterests)
                 \o " more)">>
      ELSE IF Len(profile.interests) > 0
        THEN <<"Interests: " \o Join(", ", profile.interests)>>
      ELSE <<>>)
  \o (IF profile.career_goal # ""
        THEN <<"Career Goal: " \o Title(profile.career_goal)>>
        ELSE <<>>)
  \o (IF Len(profile.additional_info) > NotesLength
        THEN <<"Additional Notes: "
                 \o SubSeq(profile.additional_info, 1, NotesLength) \o "...">>
      ELSE IF Len(profile.additional_info) > ShortNotes
        THEN <<"Additional Notes: " \o profile.additional_info \o "...">>
      ELSE <<>>)

\* C21 (amended): the summary is the fallback text exactly when the profile
\* has no education level, no interests, no career goal and additional info
\* of at most 10 characters; otherwise it is the lines of the fields, one
\* per line, where additional info of at most 10 characters has no line
ProfileSummaryOverTen ==
  IsSummary =>
    /\ ret.value = NotProvided
         <=> /\ call.profile.education_level = ""
             /\ call.profile.interests = <<>>
             /\ call.profile.career_goal = ""
             /\ Len(call.profile.additional_info) <= ShortNotes
    /\ ret.value # NotProvided
         => ret.value = Join("\n", SummaryLines(call.profile))

\* a summary of four lines that cuts both the interests and the notes
ProfileSummaryOverTenWitness ==
  /\ IsSummary
  /\ call.profile.education_level # ""
  /\ call.profile.career_goal # ""
  /\ Len(call.profile.interests) > FirstInterests
  /\ Len(call.profile.additional_info) > NotesLength
  /\ ret.value = Join("\n", SummaryLines(call.profile))

(***************************************************************************)
(* Properties of the catalog list                                          *)
(***************************************************************************)

\* C22: no operation of CourseRAG changes the catalog: every call leaves
\* self.courses the sequence of records it was after loading, and
\* get_recommended_courses returns what it returns when its lists are taken
\* as values
CatalogNeverMutated ==
  [][ /\ courses' = courses
      /\ call'.op = "get_recommended_courses"
           => ret'.value = get_recommended_courses(call'.user_profile).result
    ]_vars

\* get_recommended_courses returned courses for a profile without level and
\* without interests, where level_courses and interest_courses are the
\* catalog list, and the catalog is as it was loaded
CatalogNeverMutatedWitness ==
  /\ call.op = "get_recommended_courses"
  /\ call.user_profile.education_level = ""
  /\ call.user_profile.interests = <<>>
  /\ call.user_profile.preferred_categories # <<>>
  /\ Len(ret.value) = Len(courses)
  /\ Len(courses) > MinUnique
  /\ courses = call.loaded

(***************************************************************************)
(* Properties of the derived categories                                    *)
(***************************************************************************)

\* a list of interests as the string that names the same interests in lower
\* case
AsLowercasedString(items) ==
  PyStr(Join(", ", [i \in 1..Len(items) |-> Lower(items[i].str)]))

\* C23: the categories derived from a list of interest strings are those
\* derived from the same interests supplied as one lower-case string
CategoriesIndependentOfShape ==
  ( /\ call.op = "process_user_input"
    /\ ~ret.raised
    /\ call.raw_input.interests.kind = "list"
    /\ \A i \in 1..Len(call.raw_input.interests.items) :
         call.raw_input.interests.items[i].kind = "str" ) =>
      ret.profile.preferred_categories =
        _derive_categories_from_interests(
          AsLowercasedString(call.raw_input.interests.items))

\* the message of each method of an advisor whose construction failed
Unavailable ==
  [op \in {"advisor.get_course_recommendations",
           "advisor.answer_course_question",
           "advisor.get_course_details",
           "advisor.chat_with_advisor"} |->
     IF op = "advisor.get_course_recommendations"
       THEN "I'm sorry, the course advisor system is not available right now."
     ELSE IF op = "advisor.answer_course_question"
       THEN "I'm sorry, I cannot answer questions right now."
     ELSE IF op = "advisor.get_course_details"
       THEN "Course information is not available right now."
     ELSE "I'm sorry, the advisor chat is not available right now."]

\* C24: the advisor has its chat session exactly when it has its CourseRAG;
\* a method called on an advisor without them returns its unavailability
\* message, whatever the service would do; and an advisor without them never
\* gets them
AdvisorFixedAtConstruction ==
  /\ [](/\ advisor.chat.kind = "none" <=> advisor.rag_system.kind = "none"
        /\ (IsAdvisorCall /\ call.chat.kind = "none")
             => ret = Returns(Fixed(Unavailable[call.op])))
  /\ [][advisor.chat.kind = "none" => advisor' = advisor]_vars

\* get_course_details was called on an advisor whose construction failed,
\* with a service that would have responded
AdvisorFixedAtConstructionWitness ==
  /\ IsAdvisorCall
  /\ call.op = "advisor.get_course_details"
  /\ call.chat.kind = "none"
  /\ call.service = "responds"
  /\ advisor = unavailable_advisor
  /\ ret = Returns(Fixed("Course information is not available right now."))

(***************************************************************************)
(* Properties of /api/recommend                                            *)
(***************************************************************************)

\* the number of courses a request asks for: its integer course_count, 10
\* when it has none
Requested(raw_input) ==
  IF raw_input.course_count.kind = "absent" THEN 10
  ELSE raw_input.course_count.int

\* C25: a response to a request with an integer course_count >= 0, or with
\* none, holds the first min(course_count, number of recommended courses)
\* courses of the ranking, and its count is the number of its courses
NoMoreThanRequested ==
  ( /\ call.op = "POST /api/recommend"
    /\ ret.status = 200
    /\ \/ call.raw_input.course_count.kind = "absent"
       \/ /\ call.raw_input.course_count.kind = "int"
          /\ call.raw_input.course_count.int >= 0 ) =>
      LET ranking ==
            get_recommended_courses(
              process_user_input(call.raw_input).profile).result
      IN  /\ ret.courses =
               SubSeq(ranking, 1,
                      Min(Requested(call.raw_input), Len(ranking)))
          /\ ret.count = Len(ret.courses)

====
